---- MODULE Spec2Model ----
(***************************************************************************)
(* A model of the resilient retrieval pipeline of the Gap Hunter Bot:      *)
(* the retry engine (GapHunterBot.retry_with_backoff), the search          *)
(* adapters, the orchestrator hunt_gaps, the record normalizer             *)
(* extract_paper_info, the LLM provider dispatcher, the retry loop of one   *)
(* LLM provider (generate_response_with_fallback), and the batch client    *)
(* and the result deduplication of performance_optimizer.py.               *)
(*                                                                         *)
(* Each component has its own specification (SpecRetry, SpecLLM, ...) over *)
(* its own variables; the variables of the other components stay at their  *)
(* initial values.                                                         *)
(***************************************************************************)
EXTENDS Integers, Sequences, FiniteSets, TLC

VARIABLES
    retry,        \* locals of one retry_with_backoff call (RetryState)
    outcomes,     \* what func() did on each attempt so far, oldest first
    providers_config,   \* LLMProviderManager: provider ids in the registry's declared order
    llm_keys,           \* providers whose credential is in the environment
    preferred_provider, \* generate_with_fallback argument ("None" when not given)
    providers_to_try,   \* generate_with_fallback local
    last_error,         \* generate_with_fallback local
    llm_pc,             \* position in generate_with_fallback
    llm_log,            \* create_provider / generation calls made, oldest first
    llm_result,         \* what generate_with_fallback returned or raised
    now_year,           \* datetime.now().year
    norm_paper,         \* extract_paper_info argument
    norm_info,          \* what extract_paper_info returned or raised
    env,                \* the variables of os.environ that hold a non-empty value
    process,            \* "running", or "exited" after sys.exit
    bot,                \* "none", or "ready" once GapHunterBot() has returned
    google_fallback,    \* the GoogleScholarFallback instance: its captured api_key
    adapter_call,       \* the search adapter call in progress or last finished
    hunt,               \* locals of one hunt_gaps call
    gen,                \* locals of one generate_response_with_fallback call
    batch,              \* one batch_api_requests call: semaphore and fetch tasks
    dedup_papers,       \* deduplicate_papers argument
    dedup_result        \* what deduplicate_papers returned or raised

varsRetry == <<retry, outcomes>>
varsLLM == <<providers_config, llm_keys, preferred_provider, providers_to_try,
             last_error, llm_pc, llm_log, llm_result>>
varsNorm == <<norm_paper, norm_info>>
varsWorld == <<env, process, bot, google_fallback>>
varsSearch == <<varsWorld, adapter_call, hunt>>

varsGen == <<gen>>
varsOptimizer == <<batch, dedup_papers, dedup_result>>

vars == <<varsRetry, varsLLM, now_year, varsNorm, varsSearch, varsGen, varsOptimizer>>

(***************************************************************************)
(* Bounds of the model                                                     *)
(***************************************************************************)
MaxRetriesArg == 3      \* max_retries arguments 0..MaxRetriesArg are explored
MaxBaseDelay == 2       \* base_delay arguments 1..MaxBaseDelay are explored
MaxKeys == 2            \* input records of extract_paper_info have at most MaxKeys keys

(***************************************************************************)
(* Small helpers                                                           *)
(***************************************************************************)
RECURSIVE Pow2(_)
Pow2(n) == IF n <= 0 THEN 1 ELSE 2 * Pow2(n - 1)

(***************************************************************************)
(* Python values.  A value is a record [t, s, n, keys, items]: t is the    *)
(* type tag, s the text of a str, n the number of an int, items the        *)
(* elements of a list or the values of a dict, keys the keys of a dict in  *)
(* insertion order.                                                        *)
(***************************************************************************)
PyNone == [t |-> "none", s |-> "", n |-> 0, keys |-> <<>>, items |-> <<>>]
PyStr(text) == [t |-> "str", s |-> text, n |-> 0, keys |-> <<>>, items |-> <<>>]
PyInt(i) == [t |-> "int", s |-> "", n |-> i, keys |-> <<>>, items |-> <<>>]
PyList(elems) == [t |-> "list", s |-> "", n |-> 0, keys |-> <<>>, items |-> elems]
PyDict(ks, vs) == [t |-> "dict", s |-> "", n |-> 0, keys |-> ks, items |-> vs]
EmptyDict == PyDict(<<>>, <<>>)

\* bool(v)
Truthy(v) ==
    CASE v.t = "none" -> FALSE
      [] v.t = "str"  -> v.s # ""
      [] v.t = "int"  -> v.n # 0
      [] v.t = "list" -> v.items # <<>>
      [] v.t = "dict" -> v.keys # <<>>

IsStr(v) == v.t = "str"
IsList(v) == v.t = "list"
IsDict(v) == v.t = "dict"

\* key in d, for a dict d
HasKey(d, k) == \E i \in 1..Len(d.keys) : d.keys[i] = k

\* d[k], for a dict d that has k
Item(d, k) == d.items[CHOOSE i \in 1..Len(d.keys) : d.keys[i] = k]

\* d.get(k, default), for a dict d
Get(d, k, default) == IF HasKey(d, k) THEN Item(d, k) ELSE default

(***************************************************************************)
(* Python str methods                                                      *)
(***************************************************************************)
DigitChars == "0123456789"
UpperChars == "ABCDEFGHIJKLMNOPQRSTUVWXYZ"
LowerChars == "abcdefghijklmnopqrstuvwxyz"

\* s[i - 1], the i-th character of s
Ch(s, i) == SubSeq(s, i, i)

\* c in s, for a character c
HasChar(s, c) == \E i \in 1..Len(s) : Ch(s, i) = c
IndexOf(s, c) == CHOOSE i \in 1..Len(s) : Ch(s, i) = c

IsDigit(c) == HasChar(DigitChars, c)
IsUpper(c) == HasChar(UpperChars, c)
IsLower(c) == HasChar(LowerChars, c)
IsSpace(c) == c = " "
\* \w of the re module
IsWordChar(c) == IsDigit(c) \/ IsUpper(c) \/ IsLower(c) \/ c = "_"

DigitValue(c) == IndexOf(DigitChars, c) - 1

LowerChar(c) == IF IsUpper(c) THEN Ch(LowerChars, IndexOf(UpperChars, c)) ELSE c
UpperChar(c) == IF IsLower(c) THEN Ch(UpperChars, IndexOf(LowerChars, c)) ELSE c

\* s.lower()
RECURSIVE Lower(_)
Lower(s) ==
    IF s = "" THEN ""
    ELSE IF Len(s) = 1 THEN LowerChar(Head(s))
    ELSE LET half == Len(s) \div 2
         IN Lower(SubSeq(s, 1, half)) \o Lower(SubSeq(s, half + 1, Len(s)))

\* s[:n]
Prefix(s, n) == IF Len(s) <= n THEN s ELSE SubSeq(s, 1, n)

\* s[i:] with i counted from 0
From(s, i) == IF i >= Len(s) THEN "" ELSE SubSeq(s, i + 1, Len(s))

RECURSIVE LStripSet(_, _)
LStripSet(s, cs) ==
    IF s # "" /\ Head(s) \in cs THEN LStripSet(Tail(s), cs) ELSE s

RECURSIVE RStripSet(_, _)
RStripSet(s, cs) ==
    IF s # "" /\ Ch(s, Len(s)) \in cs THEN RStripSet(SubSeq(s, 1, Len(s) - 1), cs) ELSE s

\* s.strip(), s.rstrip(',')
Strip(s) == RStripSet(LStripSet(s, {" "}), {" "})
RStripComma(s) == RStripSet(s, {","})

\* s.startswith(p)
StartsWith(s, p) == Len(s) >= Len(p) /\ SubSeq(s, 1, Len(p)) = p

\* p occurs in s at 1-based position i
OccursAt(s, p, i) ==
    i >= 1 /\ i + Len(p) - 1 <= Len(s) /\ SubSeq(s, i, i + Len(p) - 1) = p

\* p in s
Contains(s, p) == \E i \in 1..(Len(s) + 1) : OccursAt(s, p, i)

\* s.split(p)[0] and s.split(p)[-1] for a non-empty separator p
BeforeFirst(s, p) ==
    IF Contains(s, p)
    THEN SubSeq(s, 1, (CHOOSE i \in 1..Len(s) :
                         OccursAt(s, p, i) /\ \A j \in 1..(i - 1) : ~OccursAt(s, p, j)) - 1)
    ELSE s
AfterLast(s, p) ==
    IF Contains(s, p)
    THEN LET i == CHOOSE i \in 1..Len(s) :
                     OccursAt(s, p, i) /\ \A j \in (i + 1)..Len(s) : ~OccursAt(s, p, j)
         IN SubSeq(s, i + Len(p), Len(s))
    ELSE s

\* s.split(): the maximal runs of non-whitespace characters
RECURSIVE SplitWS(_)
SplitWS(s) ==
    LET t == LStripSet(s, {" "})
        spaces == {i \in 1..Len(t) : IsSpace(Ch(t, i))}
        end == IF spaces = {} THEN Len(t) + 1
               ELSE CHOOSE i \in spaces : \A j \in spaces : i <= j
    IN IF t = "" THEN <<>>
       ELSE <<SubSeq(t, 1, end - 1)>> \o SplitWS(From(t, end - 1))
Split(s) == SplitWS(s)

\* s.isdigit()
IsDigitStr(s) == s # "" /\ \A i \in 1..Len(s) : IsDigit(Ch(s, i))

\* The number a string of digits denotes.
RECURSIVE DigitsToInt(_, _)
DigitsToInt(s, acc) ==
    IF s = "" THEN acc ELSE DigitsToInt(Tail(s), 10 * acc + DigitValue(Head(s)))

\* str(i) for an int i
RECURSIVE NatToDigits(_)
NatToDigits(i) ==
    IF i < 10 THEN Ch(DigitChars, i + 1)
    ELSE NatToDigits(i \div 10) \o Ch(DigitChars, (i % 10) + 1)
IntToStr(i) == IF i < 0 THEN "-" \o NatToDigits(0 - i) ELSE NatToDigits(i)

\* int(s) for a str s: surrounding whitespace and one sign are accepted;
\* anything else is a ValueError.
Unsigned(s) ==
    LET t == Strip(s) IN IF t # "" /\ Head(t) \in {"-", "+"} THEN Tail(t) ELSE t
IntParses(s) == IsDigitStr(Unsigned(s))
IntOfStr(s) ==
    IF StartsWith(Strip(s), "-")
    THEN 0 - DigitsToInt(Unsigned(s), 0)
    ELSE DigitsToInt(Unsigned(s), 0)

\* str(v) and repr(v)
RECURSIVE PyRepr(_)
RECURSIVE JoinReprs(_, _)
RECURSIVE JoinPairs(_, _, _)
JoinReprs(elems, i) ==
    IF i > Len(elems) THEN ""
    ELSE (IF i > 1 THEN ", " ELSE "") \o PyRepr(elems[i]) \o JoinReprs(elems, i + 1)
JoinPairs(ks, vs, i) ==
    IF i > Len(ks) THEN ""
    ELSE (IF i > 1 THEN ", " ELSE "") \o "'" \o ks[i] \o "': " \o PyRepr(vs[i])
         \o JoinPairs(ks, vs, i + 1)
PyRepr(v) ==
    CASE v.t = "none" -> "None"
      [] v.t = "str"  -> "'" \o v.s \o "'"
      [] v.t = "int"  -> IntToStr(v.n)
      [] v.t = "list" -> "[" \o JoinReprs(v.items, 1) \o "]"
      [] v.t = "dict" -> "{" \o JoinPairs(v.keys, v.items, 1) \o "}"
StrOf(v) == IF v.t = "str" THEN v.s ELSE PyRepr(v)

\* len(v) for a str, list or dict (a TypeError for None and int)
HasLen(v) == v.t \in {"str", "list", "dict"}
PyLen(v) ==
    CASE v.t = "str" -> Len(v.s)
      [] v.t = "list" -> Len(v.items)
      [] v.t = "dict" -> Len(v.keys)
      [] OTHER -> 0

\* v[0] for a non-empty str or list (anything else raises TypeError,
\* IndexError or KeyError)
HasFirst(v) == (v.t = "str" /\ v.s # "") \/ (v.t = "list" /\ v.items # <<>>)
First(v) == IF v.t = "str" THEN PyStr(Head(v.s)) ELSE v.items[1]

\* int(v): [ok, n]; ok is FALSE when int() raises TypeError or ValueError
IntOf(v) ==
    CASE v.t = "int" -> [ok |-> TRUE, n |-> v.n]
      [] v.t = "str" /\ IntParses(v.s) -> [ok |-> TRUE, n |-> IntOfStr(v.s)]
      [] OTHER -> [ok |-> FALSE, n |-> 0]

(***************************************************************************)
(* extract_paper_info (clean_gap_hunter.py 429-667)                        *)
(***************************************************************************)
\* current_year = 2024 (lines 535 and 655)
HardCodedCurrentYear == 2024
MinYear == 1900
TitleLimit == 50
AuthorLimit == 15
SourceLimit == 20

\* ---- title (lines 440-475) ----
TitleKeys == <<"title", "name", "displayName", "articleTitle", "work_title", "dc:title">>

\* Lines 453-464 from candidate i on; title is None or a str; the loop breaks
\* once title is longer than 3 characters.
RECURSIVE TitleLoop(_, _, _)
TitleLoop(paper, i, title) ==
    IF i > Len(TitleKeys) THEN title
    ELSE LET c == Get(paper, TitleKeys[i], PyNone)
             t == IF ~Truthy(c) THEN title
                  ELSE IF IsList(c) THEN PyStr(Strip(StrOf(c.items[1])))
                  ELSE PyStr(Strip(StrOf(c)))
         IN IF Truthy(c) /\ Truthy(t) /\ Len(t.s) > 3 THEN t
            ELSE TitleLoop(paper, i + 1, t)

\* Line 469: the default arguments are evaluated eagerly, innermost first, so
\* paper.get('journal', {}).get(...) runs whenever the fallback is taken.
TitleFallbackRaises(paper) == ~IsDict(Get(paper, "journal", EmptyDict))
TitleFallbackSource(paper) ==
    LET fromJournal == Get(Get(paper, "journal", EmptyDict), "name", PyStr("Research"))
        source == Get(paper, "source", Get(paper, "publisher", fromJournal))
    IN IF IsDict(source) THEN Get(source, "name", PyStr("Research")) ELSE source

NeedsTitleFallback(title) == ~Truthy(title) \/ Len(title.s) < 3

\* [raised, title]: lines 440-475
ExtractTitle(paper) ==
    LET found == TitleLoop(paper, 1, PyNone)
    IN IF NeedsTitleFallback(found)
       THEN IF TitleFallbackRaises(paper)
            THEN [raised |-> "AttributeError", title |-> ""]
            ELSE [raised |-> "none",
                  title |-> Strip(Prefix("Research Paper from "
                                 \o Prefix(StrOf(TitleFallbackSource(paper)), SourceLimit),
                                 TitleLimit))]
       ELSE [raised |-> "none", title |-> Strip(Prefix(found.s, TitleLimit))]

\* ---- first author (lines 477-531) ----
\* author_sources: the field and whether its extractor takes x[0] of a list
\* ("first") or x itself when it is a str ("str").
AuthorSources == <<[field |-> "authors", how |-> "first"],
                   [field |-> "author", how |-> "first"],
                   [field |-> "creator", how |-> "str"],
                   [field |-> "contributors", how |-> "first"],
                   [field |-> "dc:creator", how |-> "str"]>>
NameFields == <<"name", "family", "given", "displayName", "fullName">>

\* The extractor lambdas of lines 482-486; None when the shape does not fit.
AuthorData(how, x) ==
    IF how = "first"
    THEN (IF IsList(x) /\ x.items # <<>> THEN x.items[1] ELSE PyNone)
    ELSE (IF IsStr(x) THEN x ELSE PyNone)

\* Lines 499-508 on an author dict: the first name field that is present and
\* truthy decides. [raised, name] with name None or a str; raised when
\* .strip() is called on a value that is not a str (AttributeError).
RECURSIVE NameFromDict(_, _)
NameFromDict(a, i) ==
    IF i > Len(NameFields) THEN [raised |-> FALSE, name |-> PyNone]
    ELSE LET f == NameFields[i]
         IN IF HasKey(a, f) /\ Truthy(Item(a, f))
            THEN IF f = "family" /\ HasKey(a, "given")
                 THEN LET given == Item(a, "given")
                          family == Item(a, "family")
                      IN IF ~IsStr(given) \/ ~IsStr(family)
                         THEN [raised |-> TRUE, name |-> PyNone]
                         ELSE [raised |-> FALSE,
                               name |-> IF Strip(given.s) # ""
                                        THEN PyStr(Strip(Strip(given.s) \o " "
                                                         \o Strip(family.s)))
                                        ELSE PyStr(Strip(family.s))]
                 ELSE [raised |-> FALSE, name |-> PyStr(Strip(StrOf(Item(a, f))))]
            ELSE NameFromDict(a, i + 1)

\* Lines 495-510: the name in author_data.
AuthorName(author_data) ==
    IF IsDict(author_data) THEN NameFromDict(author_data, 1)
    ELSE IF IsStr(author_data) THEN [raised |-> FALSE, name |-> PyStr(Strip(author_data.s))]
    ELSE [raised |-> FALSE, name |-> PyNone]

\* Lines 513-520: the surname of a name longer than one character.
Surname(name) ==
    LET cleaned == Strip(RStripComma(name))
        parts == Split(cleaned)
    IN IF Len(parts) > 1 THEN parts[Len(parts)]
       ELSE IF Len(parts) = 1 THEN parts[1]
       ELSE Prefix(cleaned, AuthorLimit)

\* Lines 489-523 from source i on: None, or the first_author of the first
\* source that yields a name longer than one character.
RECURSIVE AuthorLoop(_, _)
AuthorLoop(paper, i) ==
    IF i > Len(AuthorSources) THEN PyNone
    ELSE LET src == AuthorSources[i]
             x == Get(paper, src.field, PyNone)
             data == AuthorData(src.how, x)
             nm == AuthorName(data)
         IN IF Truthy(x) /\ Truthy(data) /\ ~nm.raised
               /\ Truthy(nm.name) /\ Len(nm.name.s) > 1
            THEN PyStr(Surname(nm.name.s))
            ELSE AuthorLoop(paper, i + 1)

\* Lines 477-531
ExtractAuthor(paper) ==
    LET found == AuthorLoop(paper, 1)
        first_author == IF ~Truthy(found) \/ Len(found.s) < 2 THEN "Author" ELSE found.s
    IN RStripComma(Strip(Prefix(first_author, AuthorLimit)))

\* ---- year (lines 533-584) ----
YearSources == <<[field |-> "year", how |-> "int"],
                 [field |-> "yearPublished", how |-> "int"],
                 [field |-> "publicationYear", how |-> "int"],
                 [field |-> "datePublished", how |-> "date"],
                 [field |-> "publishedDate", how |-> "date"],
                 [field |-> "published-print", how |-> "parts"],
                 [field |-> "issued", how |-> "parts"],
                 [field |-> "published", how |-> "parts"],
                 [field |-> "created", how |-> "parts"],
                 [field |-> "deposited", how |-> "parts"]>>

NoYear == [ok |-> FALSE, n |-> 0]

\* The extractor lambdas of lines 540-553 on a truthy x: [ok, n], ok FALSE
\* when the lambda gives None or raises one of the exceptions line 564 catches
\* (they are all it can raise).
YearCandidate(how, x) ==
    CASE how = "int" -> IntOf(x)
      [] how = "date" ->
           IF Len(StrOf(x)) >= 4 THEN IntOf(PyStr(Prefix(StrOf(x), 4))) ELSE NoYear
      [] how = "parts" ->
           IF IsDict(x) /\ HasKey(x, "date-parts") /\ Truthy(Item(x, "date-parts"))
           THEN LET dp == Item(x, "date-parts")
                IN IF HasFirst(dp) /\ HasLen(First(dp)) /\ PyLen(First(dp)) > 0
                      /\ HasFirst(First(dp))
                   THEN IntOf(First(First(dp)))
                   ELSE NoYear
           ELSE NoYear

YearInRangeAnything(n, current_year) == TRUE
YearInRange(n, current_year) == MinYear <= n /\ n <= current_year

\* Lines 557-565 from source i on: "" or the first accepted year as a str.
RECURSIVE YearLoop(_, _, _)
YearLoop(paper, i, current_year) ==
    IF i > Len(YearSources) THEN ""
    ELSE LET src == YearSources[i]
             x == Get(paper, src.field, PyNone)
             c == IF Truthy(x) THEN YearCandidate(src.how, x) ELSE NoYear
         IN IF c.ok /\ c.n # 0 /\ YearInRange(c.n, current_year)
            THEN IntToStr(c.n)
            ELSE YearLoop(paper, i + 1, current_year)

\* A match of \b(19\d{2}|20[0-2]\d)\b at position i of s.
YearTokenAt(s, i) ==
    /\ i + 3 <= Len(s)
    /\ \/ (SubSeq(s, i, i + 1) = "19" /\ IsDigit(Ch(s, i + 2)))
       \/ (SubSeq(s, i, i + 1) = "20" /\ Ch(s, i + 2) \in {"0", "1", "2"})
    /\ IsDigit(Ch(s, i + 3))
    /\ (i = 1 \/ ~IsWordChar(Ch(s, i - 1)))
    /\ (i + 3 = Len(s) \/ ~IsWordChar(Ch(s, i + 4)))

\* Lines 573-578: the first match of the pattern in s whose value is in range,
\* or "".
YearInText(s, current_year) ==
    LET hits == {i \in 1..Len(s) :
                   YearTokenAt(s, i)
                   /\ YearInRange(DigitsToInt(SubSeq(s, i, i + 3), 0), current_year)}
    IN IF hits = {} THEN ""
       ELSE LET i == CHOOSE i \in hits : \A j \in hits : i <= j
            IN SubSeq(s, i, i + 3)

\* Lines 571-580 from item i of the record on.
RECURSIVE YearScan(_, _, _)
YearScan(paper, i, current_year) ==
    IF i > Len(paper.keys) THEN ""
    ELSE LET v == paper.items[i]
             y == IF IsStr(v) THEN YearInText(v.s, current_year) ELSE ""
         IN IF y # "" THEN y ELSE YearScan(paper, i + 1, current_year)

\* Lines 533-584 with the final validation of lines 649-659.
ExtractYear(paper) ==
    LET current_year == HardCodedCurrentYear
        direct == YearLoop(paper, 1, current_year)
        scanned == IF direct # "" THEN direct ELSE YearScan(paper, 1, current_year)
        year == IF scanned # "" THEN scanned ELSE IntToStr(current_year)
        checked == IF year = "" \/ Contains(Lower(year), "unavailable") \/ ~IsDigitStr(year)
                   THEN "2024" ELSE year
    IN IF ~YearInRange(DigitsToInt(checked, 0), current_year)
       THEN IntToStr(current_year)
       ELSE checked

\* ---- journal (lines 586-600) ----
\* a or b
PyOr(a, b) == IF Truthy(a) THEN a ELSE b

\* The journal_name local after lines 587-600: any Python value.
JournalValue(paper) ==
    IF HasKey(paper, "journal") /\ Truthy(Item(paper, "journal"))
    THEN LET journal == Item(paper, "journal")
         IN IF IsDict(journal)
            THEN PyOr(Get(journal, "name", PyStr("")), Get(journal, "title", PyStr("")))
            ELSE IF IsStr(journal) THEN journal ELSE PyStr("")
    ELSE IF HasKey(paper, "container-title") /\ Truthy(Item(paper, "container-title"))
    THEN LET container == Item(paper, "container-title")
         IN IF IsList(container) THEN container.items[1]
            ELSE IF IsStr(container) THEN container ELSE PyStr("")
    ELSE PyStr("")

\* Line 665: journal_name.strip() if journal_name else ''; a truthy value that
\* is not a str has no strip (AttributeError).
ExtractJournal(paper) ==
    LET journal_name == JournalValue(paper)
    IN IF ~Truthy(journal_name) THEN [raised |-> "none", journal_name |-> ""]
       ELSE IF IsStr(journal_name)
            THEN [raised |-> "none", journal_name |-> Strip(journal_name.s)]
            ELSE [raised |-> "AttributeError", journal_name |-> ""]

\* ---- DOI (lines 602-638) ----
\* doi_candidates, in order (lines 606-613)
DoiCandidates(paper) ==
    <<Get(paper, "doi", PyNone),
      Get(paper, "DOI", PyNone),
      IF IsDict(Get(paper, "externalIds", PyNone))
      THEN Get(Item(paper, "externalIds"), "DOI", PyNone) ELSE PyNone,
      IF IsDict(Get(paper, "identifiers", PyNone))
      THEN Get(Item(paper, "identifiers"), "doi", PyNone) ELSE PyNone,
      Get(paper, "url", PyNone),
      Get(paper, "link", PyNone)>>

\* Lines 616-630 on one candidate: the value the loop commits to, or "" when
\* the loop goes on to the next candidate.
DoiLooseMatch(candidate) ==
    IF ~Truthy(candidate) THEN ""
    ELSE LET candidate_str == Strip(StrOf(candidate))
         IN IF Contains(candidate_str, "doi.org/")
            THEN LET doi_part == AfterLast(candidate_str, "doi.org/")
                 IN IF doi_part # "" /\ Len(doi_part) > 5 THEN doi_part ELSE ""
            ELSE IF StartsWith(candidate_str, "10.") /\ Contains(candidate_str, "/")
                    /\ Len(candidate_str) > 5
                 THEN candidate_str
                 ELSE ""

\* The loop goes on to the next candidate when the value it found fails the
\* shape check of line 637.
RECURSIVE DoiLoopUntilValid(_, _)
DoiLoopUntilValid(cands, i) ==
    IF i > Len(cands) THEN ""
    ELSE IF DoiLooseMatch(cands[i]) # ""
            /\ StartsWith(DoiLooseMatch(cands[i]), "10.")
            /\ Len(Strip(BeforeFirst(BeforeFirst(DoiLooseMatch(cands[i]), "?"), "#"))) > 7
         THEN DoiLooseMatch(cands[i])
    ELSE DoiLoopUntilValid(cands, i + 1)

RECURSIVE DoiLoop(_, _)
DoiLoop(cands, i) ==
    IF i > Len(cands) THEN ""
    ELSE IF DoiLooseMatch(cands[i]) # "" THEN DoiLooseMatch(cands[i])
    ELSE DoiLoop(cands, i + 1)

\* Line 637: the final shape check.
DoiShapeOk(doi) == StartsWith(doi, "10.") /\ Contains(doi, "/") /\ Len(doi) > 7

\* Lines 602-638: None or the DOI as a str.
ExtractDoi(paper) ==
    LET committed == DoiLoop(DoiCandidates(paper), 1)
        cleaned == Strip(BeforeFirst(BeforeFirst(committed, "?"), "#"))
    IN IF committed # "" /\ cleaned # "" /\ DoiShapeOk(cleaned)
       THEN PyStr(cleaned) ELSE PyNone

\* ---- the whole function (lines 429-667) ----
Raised(exc) ==
    [raised |-> exc, title |-> "", first_author |-> "", year |-> "",
     journal_name |-> "", doi |-> PyNone]

ExtractPaperInfo(paper) ==
    IF ~IsDict(paper) THEN Raised("AttributeError")   \* paper.get, line 445
    ELSE LET t == ExtractTitle(paper)
             j == ExtractJournal(paper)
             title == IF t.title = "" \/ Contains(Lower(t.title), "unavailable")
                      THEN "Research Paper" ELSE t.title
             author == ExtractAuthor(paper)
             first_author == IF author = "" \/ Contains(Lower(author), "unavailable")
                             THEN "Author" ELSE author
         IN IF t.raised # "none" THEN Raised(t.raised)
            ELSE IF j.raised # "none" THEN Raised(j.raised)
            ELSE [raised |-> "none",
                  title |-> Strip(Prefix(title, TitleLimit)),
                  first_author |-> Strip(Prefix(first_author, AuthorLimit)),
                  year |-> ExtractYear(paper),
                  journal_name |-> j.journal_name,
                  doi |-> ExtractDoi(paper)]

(***************************************************************************)
(* retry_with_backoff (clean_gap_hunter.py 64-92)                          *)
(***************************************************************************)
DefaultMaxRetries == 3
DefaultBaseDelay == 1

\* What one call of the wrapped operation can do: return a truthy (non-empty)
\* result, return a falsy (empty) one, or raise.
OpOutcomes == {"nonempty", "empty", "Timeout", "ConnectionError", "OtherException"}

IsException(o) == o \in {"Timeout", "ConnectionError", "OtherException"}

\* The except clauses of the try statement, in source order.
RetryHandlers == <<"Timeout", "ConnectionError", "Exception">>

\* isinstance(exception o, class c) for the classes above.
IsInstance(o, c) == IsException(o) /\ (c = "Exception" \/ c = o)

\* The first except clause that catches o, or "none" when o propagates.
CaughtBy(o) ==
    LET hits == {i \in 1..Len(RetryHandlers) : IsInstance(o, RetryHandlers[i])}
    IN IF hits = {} THEN "none"
       ELSE RetryHandlers[CHOOSE i \in hits : \A j \in hits : i <= j]

\* The state of a fresh call: the for loop is about to take its first index.
RetryStart(mr, bd) ==
    [max_retries |-> mr, base_delay |-> bd, attempt |-> 0, calls |-> 0,
     sleeps |-> <<>>, pc |-> "loop", result |-> "unset", raised |-> FALSE]

\* for attempt in range(max_retries): the loop takes another index.
RetryLoopContinuesOffByOne(rs) == rs.pc = "loop" /\ rs.attempt <= rs.max_retries
RetryLoopContinues(rs) == rs.pc = "loop" /\ rs.attempt < rs.max_retries

\* The sleep after a failed attempt that is not the last: base_delay * 2^attempt,
\* with the uniform(0,1) jitter only on the empty-result path.
BackoffSleepAfterLast(rs, jitter) ==
    Append(rs.sleeps, [delay |-> rs.base_delay * Pow2(rs.attempt), jitter |-> jitter])
BackoffSleep(rs, jitter) ==
    IF rs.attempt < rs.max_retries - 1
    THEN Append(rs.sleeps,
                [delay |-> rs.base_delay * Pow2(rs.attempt), jitter |-> jitter])
    ELSE rs.sleeps

\* One iteration of the loop body, func() doing o.
RetryLoopBodyNoEarlyReturn(rs, o) ==
    [rs EXCEPT !.calls = @ + 1, !.attempt = @ + 1,
               !.sleeps = BackoffSleep(rs, o \in {"empty", "nonempty"})]
RetryLoopBody(rs, o) ==
    LET called == [rs EXCEPT !.calls = @ + 1]
    IN CASE o = "nonempty" ->
              [called EXCEPT !.pc = "returned", !.result = "func_result"]
         [] o = "empty" ->
              [called EXCEPT !.sleeps = BackoffSleep(rs, TRUE), !.attempt = @ + 1]
         [] CaughtBy(o) \in {"Timeout", "ConnectionError"} ->
              [called EXCEPT !.sleeps = BackoffSleep(rs, FALSE), !.attempt = @ + 1]
         [] CaughtBy(o) = "Exception" ->
              \* break, then the return [] after the loop
              [called EXCEPT !.pc = "returned", !.result = "empty_list"]
         [] OTHER ->
              \* no clause catches o: it propagates to the caller
              [called EXCEPT !.pc = "returned", !.raised = TRUE]

\* range(max_retries) is exhausted: the return [] after the loop.
RetryFallThrough(rs) == [rs EXCEPT !.pc = "returned", !.result = "empty_list"]

(***************************************************************************)
(* LLM providers (llm_providers.py)                                        *)
(***************************************************************************)
LLMDefaultMaxRetries == 3

\* The provider ids the manager can construct (create_provider's branches).
SupportedProviders == {"openai", "anthropic", "google"}

\* What one generate_response call can do: return text, raise an error whose
\* message mentions "rate" or "quota", or raise any other error.
GenOutcomes == {"ok", "RateLimitError", "ProviderError"}

\* BaseLLMProvider.generate_response_with_fallback on a provider whose
\* successive generate_response calls do script[1], script[2], ...:
\* what it returns or raises, the calls made and the sleeps taken.
RECURSIVE GenLoop(_, _, _, _)
GenLoop(script, max_retries, attempt, acc) ==
    IF attempt >= max_retries
    THEN \* raise last_error (raise None is a TypeError)
         [acc EXCEPT !.ok = FALSE,
                     !.error = IF acc.error = "None" THEN "TypeError" ELSE acc.error]
    ELSE LET o == script[attempt + 1]
             called == [acc EXCEPT !.calls = @ + 1]
         IN IF o = "ok"
            THEN [called EXCEPT !.ok = TRUE, !.error = "None"]
            ELSE GenLoop(script, max_retries, attempt + 1,
                   [called EXCEPT
                      !.error = o,
                      !.sleeps = IF o = "RateLimitError"
                                 THEN Append(@, Pow2(attempt))
                                 ELSE IF attempt < max_retries - 1
                                      THEN Append(@, 1)
                                      ELSE @])

GenerateResponseWithFallback(script, max_retries) ==
    GenLoop(script, max_retries, 0,
            [ok |-> FALSE, calls |-> 0, sleeps |-> <<>>, error |-> "None"])

GenScripts == [1..LLMDefaultMaxRetries -> GenOutcomes]

\* The scripts for a call with any max_retries argument of the bounds
GenCallScripts == [1..MaxRetriesArg -> GenOutcomes]

\* LLMProviderManager.get_available_providers: every configured provider id,
\* whether or not its credential is present.
GetAvailableProviders == providers_config

InSeq(x, seq) == \E i \in 1..Len(seq) : seq[i] = x

\* create_provider(p) succeeds: p is configured and supported and the provider's
\* _initialize_client finds its API key.
CreateProviderSucceeds(p) ==
    /\ InSeq(p, providers_config)
    /\ p \in SupportedProviders
    /\ p \in llm_keys

\* check_provider_availability(p): create_provider(p).is_available(), False on
\* any exception.
CheckProviderAvailability(p) == CreateProviderSucceeds(p) /\ p \in llm_keys

RECURSIVE AddFallbacks(_, _)
AddFallbacks(todo, acc) ==
    IF todo = <<>> THEN acc
    ELSE AddFallbacks(Tail(todo),
            IF ~InSeq(Head(todo), acc) /\ CheckProviderAvailability(Head(todo))
            THEN Append(acc, Head(todo))
            ELSE acc)

RECURSIVE Reverse(_)
Reverse(seq) == IF seq = <<>> THEN <<>> ELSE Append(Reverse(Tail(seq)), Head(seq))

\* The candidate order generate_with_fallback builds (lines 321-330).
CandidateOrderReversed(preferred) ==
    AddFallbacks(Reverse(GetAvailableProviders),
                 IF preferred # "None" /\ InSeq(preferred, GetAvailableProviders)
                 THEN <<preferred>> ELSE <<>>)
CandidateOrder(preferred) ==
    AddFallbacks(GetAvailableProviders,
                 IF preferred # "None" /\ InSeq(preferred, GetAvailableProviders)
                 THEN <<preferred>> ELSE <<>>)

\* The exception raised after the loop over the candidates (lines 345-348).
FinalErrorAlwaysAllFailed(err) == "All LLM providers failed"
FinalError(err) ==
    IF err # "None" THEN "All LLM providers failed"
    ELSE "No available LLM providers found"

PreferredChoices == SupportedProviders \cup {"None", "unconfigured"}

RECURSIVE Perms(_)
Perms(S) ==
    IF S = {} THEN {<<>>}
    ELSE UNION {{<<x>> \o p : p \in Perms(S \ {x})} : x \in S}

LLMIdle ==
    /\ providers_config = <<"openai", "anthropic", "google">>
    /\ llm_keys = {}
    /\ preferred_provider = "None"
    /\ providers_to_try = <<>>
    /\ last_error = "None"
    /\ llm_pc = "idle"
    /\ llm_log = <<>>
    /\ llm_result = [kind |-> "none"]

RetryIdle ==
    /\ retry = RetryStart(0, DefaultBaseDelay)
    /\ outcomes = <<>>

NotCalled == Raised("not_called")

NormIdle ==
    /\ norm_paper = EmptyDict
    /\ norm_info = NotCalled

ClockIdle == now_year = HardCodedCurrentYear

GenIdle == gen = [pc |-> "idle"]

\* deduplicate_papers has not been called
DedupNotCalled == [raised |-> "not_called", papers |-> <<>>]

OptimizerIdle ==
    /\ batch = [pc |-> "idle"]
    /\ dedup_papers = <<>>
    /\ dedup_result = DedupNotCalled

SearchIdle ==
    /\ env = {}
    /\ process = "running"
    /\ bot = "none"
    /\ google_fallback = "unset"
    /\ adapter_call = [pc |-> "idle"]
    /\ hunt = [pc |-> "idle"]

InitRetry ==
    /\ \E mr \in 0..MaxRetriesArg, bd \in 1..MaxBaseDelay : retry = RetryStart(mr, bd)
    /\ outcomes = <<>>
    /\ LLMIdle /\ ClockIdle /\ NormIdle /\ SearchIdle /\ GenIdle /\ OptimizerIdle

RetryAttempt ==
    /\ RetryLoopContinues(retry)
    /\ \E o \in OpOutcomes :
          /\ retry' = RetryLoopBody(retry, o)
          /\ outcomes' = Append(outcomes, o)
    /\ UNCHANGED <<varsLLM, now_year, varsGen, varsOptimizer, varsNorm, varsSearch>>

RetryReturnEmpty ==
    /\ retry.pc = "loop"
    /\ ~RetryLoopContinues(retry)
    /\ retry' = RetryFallThrough(retry)
    /\ UNCHANGED outcomes
    /\ UNCHANGED <<varsLLM, now_year, varsGen, varsOptimizer, varsNorm, varsSearch>>

NextRetry == RetryAttempt \/ RetryReturnEmpty

SpecRetry == InitRetry /\ [][NextRetry]_vars

(***************************************************************************)
(* The batch client (performance_optimizer.py): batch_api_requests runs    *)
(* AsyncAPIClient.fetch_multiple, one fetch coroutine per request, all of  *)
(* them sharing an asyncio.Semaphore(max_concurrent)                       *)
(***************************************************************************)
MaxConcurrent == 2      \* max_concurrent arguments 0..MaxConcurrent are explored
MaxRequests == 3        \* batches of 0..MaxRequests requests are explored

\* What session.get can do for one request: answer 200 with a JSON body,
\* answer another status, or raise (timeout, connection error, bad body).
FetchOutcomes == {"200", "500", "ClientError"}

\* Lines 155-158: the value fetch returns for one request
FetchResult(o) ==
    IF o = "200" THEN [kind |-> "json"]
    ELSE IF o = "500" THEN [kind |-> "item_error", error |-> "HTTP 500"]
    ELSE [kind |-> "item_error", error |-> o]

\* The client and its tasks once gather has created them: no task holds the
\* semaphore yet.
BatchStart(n, max_concurrent) ==
    [pc |-> "running", max_concurrent |-> max_concurrent, sem |-> max_concurrent,
     tasks |-> [i \in 1..n |-> [pc |-> "waiting", outcome |-> "none",
                                result |-> [kind |-> "none"]]],
     results |-> <<>>]

\* asyncio.Semaphore.acquire returns without waiting.
SemaphoreFreeAlways(b) == TRUE
SemaphoreFree(b) == b.sem > 0

\* Line 152: async with self.semaphore (entry), then session.get is sent
Acquired(b, i) ==
    [b EXCEPT !.sem = @ - 1, !.tasks[i].pc = "in_flight"]

\* Lines 153-160: session.get does o, fetch returns its value and leaves the
\* async with block, which releases the semaphore.
Responded(b, i, o) ==
    [b EXCEPT !.sem = @ + 1,
              !.tasks[i] = [pc |-> "done", outcome |-> o, result |-> FetchResult(o)]]

\* Line 170: gather returns the values of the tasks in the order of the requests
Gathered(b) ==
    [b EXCEPT !.pc = "returned",
              !.results = [i \in 1..Len(b.tasks) |-> b.tasks[i].result]]

InitBatch ==
    /\ \E n \in 0..MaxRequests, mc \in 0..MaxConcurrent : batch = BatchStart(n, mc)
    /\ dedup_papers = <<>> /\ dedup_result = DedupNotCalled
    /\ RetryIdle /\ LLMIdle /\ ClockIdle /\ NormIdle /\ SearchIdle /\ GenIdle

BatchAcquire ==
    /\ batch.pc = "running"
    /\ SemaphoreFree(batch)
    /\ \E i \in 1..Len(batch.tasks) :
          /\ batch.tasks[i].pc = "waiting"
          /\ batch' = Acquired(batch, i)
    /\ UNCHANGED <<dedup_papers, dedup_result>>
    /\ UNCHANGED <<varsRetry, varsLLM, now_year, varsNorm, varsSearch, varsGen>>

BatchRespond ==
    /\ batch.pc = "running"
    /\ \E i \in 1..Len(batch.tasks), o \in FetchOutcomes :
          /\ batch.tasks[i].pc = "in_flight"
          /\ batch' = Responded(batch, i, o)
    /\ UNCHANGED <<dedup_papers, dedup_result>>
    /\ UNCHANGED <<varsRetry, varsLLM, now_year, varsNorm, varsSearch, varsGen>>

BatchGather ==
    /\ batch.pc = "running"
    /\ \A i \in 1..Len(batch.tasks) : batch.tasks[i].pc = "done"
    /\ batch' = Gathered(batch)
    /\ UNCHANGED <<dedup_papers, dedup_result>>
    /\ UNCHANGED <<varsRetry, varsLLM, now_year, varsNorm, varsSearch, varsGen>>

NextBatch == BatchAcquire \/ BatchRespond \/ BatchGather

SpecBatch == InitBatch /\ [][NextBatch]_vars

(***************************************************************************)
(* ResultsOptimizer.deduplicate_papers (performance_optimizer.py)          *)
(***************************************************************************)
MaxPapers == 3          \* lists of 0..MaxPapers records are deduplicated

RECURSIVE ConcatAll(_)
\* ''.join(words)
ConcatAll(words) == IF words = <<>> THEN "" ELSE Head(words) \o ConcatAll(Tail(words))

\* Line 317: title_key = ''.join(title.split())
TitleKey(title) == ConcatAll(Split(title))

\* Lines 311-321: the loop over the records that are left, with the keys seen
\* and the records kept so far
RECURSIVE DedupLoop(_, _, _)
DedupLoop(papers, seen_titles, unique_papers) ==
    IF papers = <<>> THEN [raised |-> "none", papers |-> unique_papers]
    ELSE LET paper == Head(papers)
             t == Get(paper, "title", PyStr(""))
         IN IF ~IsStr(t)
            THEN \* .lower() of a value that is not a str
                 [raised |-> "AttributeError", papers |-> <<>>]
            ELSE IF Strip(Lower(t.s)) = ""
                 THEN DedupLoop(Tail(papers), seen_titles, unique_papers)
                 ELSE IF TitleKey(Strip(Lower(t.s))) \in seen_titles
                      THEN DedupLoop(Tail(papers), seen_titles, unique_papers)
                      ELSE DedupLoop(Tail(papers),
                                     seen_titles \cup {TitleKey(Strip(Lower(t.s)))},
                                     Append(unique_papers, paper))

DeduplicatePapers(papers) == DedupLoop(papers, {}, <<>>)

\* The records given to deduplicate_papers: two spellings of one title, another
\* title, an empty title, a record without title and a record whose title is
\* null.
DedupPool ==
    {PyDict(<<"title", "year">>, <<PyStr("Deep Learning"), PyInt(2023)>>),
     PyDict(<<"title">>, <<PyStr(" deep  learning ")>>),
     PyDict(<<"title">>, <<PyStr("Graph mining")>>),
     PyDict(<<"title">>, <<PyStr("")>>),
     PyDict(<<"abstract">>, <<PyStr("Molecules")>>),
     PyDict(<<"title">>, <<PyNone>>)}

DedupInputs == UNION {[1..n -> DedupPool] : n \in 0..MaxPapers}

InitDedup ==
    /\ dedup_papers \in DedupInputs
    /\ dedup_result = DedupNotCalled
    /\ batch = [pc |-> "idle"]
    /\ RetryIdle /\ LLMIdle /\ ClockIdle /\ NormIdle /\ SearchIdle /\ GenIdle

\* unique = ResultsOptimizer.deduplicate_papers(papers)
Deduplicate ==
    /\ dedup_result = DedupNotCalled
    /\ dedup_result' = DeduplicatePapers(dedup_papers)
    /\ UNCHANGED <<batch, dedup_papers>>
    /\ UNCHANGED <<varsRetry, varsLLM, now_year, varsNorm, varsSearch, varsGen>>

NextDedup == Deduplicate

SpecDedup == InitDedup /\ [][NextDedup]_vars

(***************************************************************************)
(* One call of BaseLLMProvider.generate_response_with_fallback, with any   *)
(* max_retries argument and any behaviour of generate_response             *)
(***************************************************************************)
InitGen ==
    /\ \E script \in GenCallScripts, mr \in 0..MaxRetriesArg :
          gen = [pc |-> "called", script |-> script, max_retries |-> mr]
    /\ RetryIdle /\ LLMIdle /\ ClockIdle /\ NormIdle /\ SearchIdle /\ OptimizerIdle

\* Lines 52-75: the call runs to its return or its raise.
GenCall ==
    /\ gen.pc = "called"
    /\ gen' = [pc |-> "done", script |-> gen.script, max_retries |-> gen.max_retries,
               r |-> GenerateResponseWithFallback(gen.script, gen.max_retries)]
    /\ UNCHANGED <<varsRetry, varsLLM, now_year, varsNorm, varsSearch, varsOptimizer>>

NextGen == GenCall

SpecGen == InitGen /\ [][NextGen]_vars

InitLLM ==
    /\ providers_config \in Perms(SupportedProviders)
    /\ llm_keys \in SUBSET SupportedProviders
    /\ preferred_provider \in PreferredChoices
    /\ providers_to_try = <<>>
    /\ last_error = "None"
    /\ llm_pc = "build"
    /\ llm_log = <<>>
    /\ llm_result = [kind |-> "none"]
    /\ RetryIdle /\ ClockIdle /\ NormIdle /\ SearchIdle /\ GenIdle /\ OptimizerIdle

\* Lines 321-330: build the candidate list.
LLMBuildCandidates ==
    /\ llm_pc = "build"
    /\ providers_to_try' = CandidateOrder(preferred_provider)
    /\ llm_pc' = "try"
    /\ UNCHANGED <<providers_config, llm_keys, preferred_provider, last_error,
                   llm_log, llm_result>>
    /\ UNCHANGED <<varsRetry, now_year, varsGen, varsOptimizer, varsNorm, varsSearch>>

\* The candidate the for loop of line 333 takes next.
NextCandidate == providers_to_try[Len(llm_log) + 1]

\* Lines 333-342, one iteration: create the provider and generate with retries.
LLMTryProvider ==
    /\ llm_pc = "try"
    /\ Len(llm_log) < Len(providers_to_try)
    /\ LET p == NextCandidate
       IN IF ~CreateProviderSucceeds(p)
          THEN /\ llm_log' = Append(llm_log, [provider |-> p, created |-> FALSE,
                                               gen_calls |-> 0, ok |-> FALSE])
               /\ last_error' = "ValueError"
               /\ UNCHANGED <<llm_pc, llm_result>>
          ELSE \E script \in GenScripts :
                 LET r == GenerateResponseWithFallback(script, LLMDefaultMaxRetries)
                 IN /\ llm_log' = Append(llm_log, [provider |-> p, created |-> TRUE,
                                                    gen_calls |-> r.calls, ok |-> r.ok])
                    /\ IF r.ok
                       THEN /\ llm_pc' = "returned"
                            /\ llm_result' = [kind |-> "return", provider |-> p]
                            /\ UNCHANGED last_error
                       ELSE /\ last_error' = r.error
                            /\ UNCHANGED <<llm_pc, llm_result>>
    /\ UNCHANGED <<providers_config, llm_keys, preferred_provider, providers_to_try>>
    /\ UNCHANGED <<varsRetry, now_year, varsGen, varsOptimizer, varsNorm, varsSearch>>

\* Lines 344-348: every candidate failed, or there was none.
LLMRaise ==
    /\ llm_pc = "try"
    /\ Len(llm_log) >= Len(providers_to_try)
    /\ llm_pc' = "raised"
    /\ llm_result' = [kind |-> "raise", message |-> FinalError(last_error)]
    /\ UNCHANGED <<providers_config, llm_keys, preferred_provider, providers_to_try,
                   last_error, llm_log>>
    /\ UNCHANGED <<varsRetry, now_year, varsGen, varsOptimizer, varsNorm, varsSearch>>

NextLLM == LLMBuildCandidates \/ LLMTryProvider \/ LLMRaise

SpecLLM == InitLLM /\ [][NextLLM]_vars

(***************************************************************************)
(* The normalizer on its own: extract_paper_info applied to one raw record *)
(***************************************************************************)
\* The years datetime.now().year is explored for.
NowYears == {2024, 2025, 2026}

\* Raw fields a provider record can carry, as the search APIs and their JSON
\* allow them: present, null, or of another type than the usual one.
NormFields ==
    <<[key |-> "title", value |-> PyStr("Some Paper")],
      [key |-> "title", value |-> PyNone],
      [key |-> "title", value |-> PyList(<<PyStr("Graph Mining")>>)],
      [key |-> "title", value |-> PyStr("Data unavailable")],
      [key |-> "journal", value |-> PyStr("Nature")],
      [key |-> "journal", value |-> PyNone],
      [key |-> "journal", value |-> PyDict(<<"name">>, <<PyInt(123)>>)],
      [key |-> "journal", value |-> PyDict(<<"name">>, <<PyStr("Cell")>>)],
      [key |-> "journal", value |-> PyStr("Data Unavailable")],
      [key |-> "year", value |-> PyInt(2021)],
      [key |-> "year", value |-> PyStr("2025")],
      [key |-> "year", value |-> PyInt(1850)],
      [key |-> "year", value |-> PyNone],
      [key |-> "authors", value |-> PyList(<<PyDict(<<"name">>, <<PyStr("Ann Lee")>>)>>)],
      [key |-> "authors", value |-> PyList(<<PyStr("Data Unavailable")>>)],
      [key |-> "doi", value |-> PyStr("10.1234/abc")],
      [key |-> "doi", value |-> PyStr("10./abcdef")],
      [key |-> "doi", value |-> PyStr("10.12/a?x")],
      [key |-> "doi", value |-> PyStr("10./a")],
      [key |-> "url", value |-> PyStr("https://doi.org/10.5555/xyz")],
      [key |-> "abstract", value |-> PyStr("Published in 1999 by")],
      [key |-> "published",
       value |-> PyDict(<<"date-parts">>, <<PyList(<<PyList(<<PyInt(2020)>>)>>)>>)],
      [key |-> "container-title", value |-> PyList(<<PyStr("J Mach Learn")>>)]>>

\* The records with at most k keys built from NormFields[i], NormFields[i+1], ...
\* (keys in that order, no key twice).
RECURSIVE RecordsFrom(_, _)
RecordsFrom(i, k) ==
    IF i > Len(NormFields) \/ k = 0 THEN {EmptyDict}
    ELSE RecordsFrom(i + 1, k)
         \cup {PyDict(<<NormFields[i].key>> \o r.keys, <<NormFields[i].value>> \o r.items) :
                 r \in {x \in RecordsFrom(i + 1, k - 1) : ~HasKey(x, NormFields[i].key)}}

NormRecords == RecordsFrom(1, MaxKeys)

InitNorm ==
    /\ norm_paper \in NormRecords
    /\ norm_info = NotCalled
    /\ now_year \in NowYears
    /\ RetryIdle /\ LLMIdle /\ SearchIdle /\ GenIdle /\ OptimizerIdle

\* paper_info = self.extract_paper_info(paper)
Normalize ==
    /\ norm_info = NotCalled
    /\ norm_info' = ExtractPaperInfo(norm_paper)
    /\ UNCHANGED <<norm_paper, now_year, varsGen, varsOptimizer, varsRetry, varsLLM, varsSearch>>

NextNorm == Normalize

SpecNorm == InitNorm /\ [][NextNorm]_vars

(***************************************************************************)
(* The search adapters: HTTP, the raw records the providers return         *)
(***************************************************************************)
EmptyList == PyList(<<>>)

\* A response body that response.json() cannot decode (it raises ValueError).
NotJson == [t |-> "notjson", s |-> "", n |-> 0, keys |-> <<>>, items |-> <<>>]

\* What one requests.get does: a response with a status and a decoded body, or
\* an exception of requests.exceptions (status "Timeout" / "ConnectionError").
Response(status, body) == [status |-> status, body |-> body]
IsRequestFailure(resp) == resp.status \in {"Timeout", "ConnectionError"}
NoBodyResponses ==
    {Response(st, PyNone) : st \in {"429", "403", "500", "Timeout", "ConnectionError"}}

\* Semantic Scholar records (fields of line 120): a recent paper, a paper whose
\* year, abstract and journal are null, and a paper older than the cutoff.
S2PaperA ==
    PyDict(<<"title", "authors", "year", "abstract", "journal", "url">>,
           <<PyStr("Deep learning on graphs"),
             PyList(<<PyDict(<<"name">>, <<PyStr("Ann Lee")>>)>>),
             PyInt(2023),
             PyStr("We benchmark deep models"),
             PyDict(<<"name">>, <<PyStr("Nature")>>),
             PyStr("https://doi.org/10.1000/abc123")>>)
S2PaperNullYear ==
    PyDict(<<"title", "authors", "year", "abstract", "journal", "url">>,
           <<PyStr("Graph mining notes"), EmptyList, PyNone, PyNone, PyNone,
             PyStr("https://s2.org/p/1")>>)
S2PaperOld ==
    PyDict(<<"title", "authors", "year", "abstract", "journal", "url">>,
           <<PyStr("Graph kernels"),
             PyList(<<PyDict(<<"name">>, <<PyStr("Bo Ek")>>)>>),
             PyInt(2010), PyStr(""), PyNone, PyStr("https://s2.org/p/2")>>)
S2Bodies ==
    {PyDict(<<"data">>, <<PyList(<<S2PaperA>>)>>),
     PyDict(<<"data">>, <<PyList(<<S2PaperNullYear>>)>>),
     PyDict(<<"data">>, <<PyList(<<S2PaperA, S2PaperOld>>)>>),
     PyDict(<<"data">>, <<PyList(<<S2PaperOld>>)>>),
     PyDict(<<"data">>, <<EmptyList>>),
     PyDict(<<"data">>, <<PyNone>>),
     EmptyDict,
     NotJson}
S2Responses == {Response("200", b) : b \in S2Bodies} \cup NoBodyResponses

\* CORE records
CorePaperA ==
    PyDict(<<"title", "authors", "yearPublished", "abstract", "doi">>,
           <<PyStr("Deep graph networks"),
             PyList(<<PyDict(<<"name">>, <<PyStr("Bob Ray")>>)>>),
             PyInt(2022),
             PyStr("Graph learning evaluation"),
             PyStr("10.5555/core1")>>)
\* The paper of S2PaperA as CORE returns it, and three more records: a full
\* page (page_size=5) of CORE results.
CorePaperSame ==
    PyDict(<<"title", "yearPublished", "abstract">>,
           <<PyStr("Deep learning on graphs"), PyInt(2023),
             PyStr("We benchmark deep models")>>)
CorePaperRank ==
    PyDict(<<"title", "yearPublished", "abstract">>,
           <<PyStr("Learning to rank"), PyInt(2020), PyStr("Ranking baseline")>>)
CorePaperMining ==
    PyDict(<<"title", "yearPublished", "abstract">>,
           <<PyStr("Graph mining at scale"), PyInt(2015),
             PyStr("Fast learning on big data")>>)
CorePaperOther ==
    PyDict(<<"title", "yearPublished", "abstract">>,
           <<PyStr("Quantum chemistry"), PyInt(2022), PyStr("Molecules")>>)
CoreFullPage ==
    <<CorePaperOther, CorePaperSame, CorePaperA, CorePaperRank, CorePaperMining>>
CoreBodies ==
    {PyDict(<<"results">>, <<PyList(<<CorePaperA>>)>>),
     PyDict(<<"results">>, <<PyList(CoreFullPage)>>),
     PyDict(<<"results">>, <<EmptyList>>),
     PyDict(<<"results">>, <<PyNone>>),
     NotJson}
CoreResponses == {Response("200", b) : b \in CoreBodies} \cup NoBodyResponses

\* Crossref records
DateParts(y) == PyDict(<<"date-parts">>, <<PyList(<<PyList(<<y>>)>>)>>)
CrossrefPaperA ==
    PyDict(<<"title", "author", "published", "container-title", "DOI">>,
           <<PyList(<<PyStr("Learning deep graphs")>>),
             PyList(<<PyDict(<<"given", "family">>, <<PyStr("Cy"), PyStr("Dow")>>)>>),
             DateParts(PyInt(2021)),
             PyList(<<PyStr("IEEE Transactions on Graphs")>>),
             PyStr("10.1109/tg.1")>>)
CrossrefPaperOld ==
    PyDict(<<"title", "published", "DOI">>,
           <<PyList(<<PyStr("Early graph theory")>>), DateParts(PyInt(2001)),
             PyStr("10.1109/tg.0")>>)
CrossrefBodies ==
    {PyDict(<<"message">>, <<PyDict(<<"items">>, <<PyList(<<CrossrefPaperA>>)>>)>>),
     PyDict(<<"message">>,
            <<PyDict(<<"items">>, <<PyList(<<CrossrefPaperOld, CrossrefPaperA>>)>>)>>),
     PyDict(<<"message">>, <<PyDict(<<"items">>, <<EmptyList>>)>>),
     PyDict(<<"message">>, <<PyNone>>),
     NotJson}
CrossrefResponses == {Response("200", b) : b \in CrossrefBodies} \cup NoBodyResponses

\* Google Custom Search items (fields of line 48)
GoogleItemA ==
    PyDict(<<"title", "link", "snippet", "displayLink">>,
           <<PyStr("Deep learning for graphs"),
             PyStr("https://arxiv.org/abs/1"),
             PyStr("Ann Lee, Bob Ray. 2021. Deep nets"),
             PyStr("arxiv.org")>>)
GoogleItemNoYear ==
    PyDict(<<"title", "link", "snippet", "displayLink">>,
           <<PyStr("Graph survey"),
             PyStr("http://www.example.com/p"),
             PyStr("a survey of graphs"),
             PyStr("www.example.com")>>)
GoogleItemNullSnippet ==
    PyDict(<<"title", "snippet">>, <<PyStr("Untitled"), PyNone>>)
GoogleBodies ==
    {PyDict(<<"items">>, <<PyList(<<GoogleItemA>>)>>),
     PyDict(<<"items">>, <<PyList(<<GoogleItemNoYear>>)>>),
     PyDict(<<"items">>, <<PyList(<<GoogleItemA, GoogleItemNoYear>>)>>),
     PyDict(<<"items">>, <<PyList(<<GoogleItemNullSnippet>>)>>),
     PyDict(<<"items">>, <<EmptyList>>),
     EmptyDict,
     NotJson}
GoogleResponses == {Response("200", b) : b \in GoogleBodies} \cup NoBodyResponses

(***************************************************************************)
(* One search adapter call                                                 *)
(***************************************************************************)
\* Events of a call, oldest first: an HTTP GET, a time.sleep inside the
\* adapter, or the backoff sleep of the retry engine.
Event(ev, secs, jitter) == [ev |-> ev, secs |-> secs, jitter |-> jitter]
HttpGet == Event("GET", 0, FALSE)
Sleep(secs) == Event("sleep", secs, FALSE)

CallStart(adapter, e, q) ==
    [adapter |-> adapter, query |-> q, env |-> e, pc |-> "running", requests |-> 0,
     statuses |-> <<>>, timeline |-> <<>>, reached |-> FALSE, result |-> PyNone,
     raised |-> "none"]

Return(call, value) == [call EXCEPT !.pc = "returned", !.result = value]

\* The call after one requests.get that resp answers.
Requested(call, resp) ==
    [call EXCEPT !.requests = @ + 1,
                 !.statuses = Append(@, resp.status),
                 !.timeline = Append(@, HttpGet),
                 !.reached = @ \/ resp.status = "200"]

\* if not query or not query.strip()
QueryRejected(q) == ~Truthy(q) \/ Strip(q.s) = ""

\* ---- s2_search (clean_gap_hunter.py 103-142) ----
S2RequestSpacing == 1      \* time.sleep(1) after every response
RateLimitCooldown == 5     \* time.sleep(5) on HTTP 429

\* The guards of lines 105-111: the call returns [] before any request, or goes
\* on to retry_with_backoff(_s2_api_call).
S2Start(e, q) ==
    IF QueryRejected(q) \/ "S2_API_KEY" \notin e
    THEN Return(CallStart("s2", e, q), EmptyList)
    ELSE CallStart("s2", e, q)

\* _s2_api_call when requests.get does resp: what the retry engine sees
\* (outcome), the value returned, and the sleeps taken inside the call.
S2ApiCallNoCooldown(resp) ==
    IF IsRequestFailure(resp)
    THEN [outcome |-> resp.status, value |-> PyNone, sleeps |-> <<>>]
    ELSE CASE resp.status = "200" ->
                IF ~IsDict(resp.body) \/ ~HasLen(Get(resp.body, "data", EmptyList))
                THEN [outcome |-> "OtherException", value |-> PyNone,
                      sleeps |-> <<Sleep(S2RequestSpacing)>>]
                ELSE LET papers == Get(resp.body, "data", EmptyList)
                     IN [outcome |-> IF Truthy(papers) THEN "nonempty" ELSE "empty",
                         value |-> papers,
                         sleeps |-> <<Sleep(S2RequestSpacing)>>]
           [] resp.status = "429" ->
                [outcome |-> "Timeout", value |-> PyNone,
                 sleeps |-> <<Sleep(S2RequestSpacing)>>]
           [] OTHER ->
                [outcome |-> "empty", value |-> EmptyList,
                 sleeps |-> <<Sleep(S2RequestSpacing)>>]
S2ApiCall(resp) ==
    IF IsRequestFailure(resp)
    THEN [outcome |-> resp.status, value |-> PyNone, sleeps |-> <<>>]
    ELSE CASE resp.status = "200" ->
                \* response.json() raises, data has no .get, or papers has no
                \* len() for the print of line 129
                IF ~IsDict(resp.body) \/ ~HasLen(Get(resp.body, "data", EmptyList))
                THEN [outcome |-> "OtherException", value |-> PyNone,
                      sleeps |-> <<Sleep(S2RequestSpacing)>>]
                ELSE LET papers == Get(resp.body, "data", EmptyList)
                     IN [outcome |-> IF Truthy(papers) THEN "nonempty" ELSE "empty",
                         value |-> papers,
                         sleeps |-> <<Sleep(S2RequestSpacing)>>]
           [] resp.status = "429" ->
                [outcome |-> "Timeout", value |-> PyNone,
                 sleeps |-> <<Sleep(S2RequestSpacing), Sleep(RateLimitCooldown)>>]
           [] OTHER ->
                [outcome |-> "empty", value |-> EmptyList,
                 sleeps |-> <<Sleep(S2RequestSpacing)>>]

\* The backoff sleep the retry engine took in going from rs to next, if any.
BackoffEvents(rs, next) ==
    IF Len(next.sleeps) > Len(rs.sleeps)
    THEN LET b == next.sleeps[Len(next.sleeps)]
         IN <<Event("backoff", b.delay, b.jitter)>>
    ELSE <<>>

\* One iteration of the retry loop over _s2_api_call: the retry state and the
\* call afterwards.
S2Attempt(call, rs, resp) ==
    LET f == S2ApiCall(resp)
        next == RetryLoopBody(rs, f.outcome)
        made == [Requested(call, resp) EXCEPT
                    !.timeline = @ \o f.sleeps \o BackoffEvents(rs, next)]
    IN [rs |-> next,
        call |-> IF next.pc # "returned" THEN made
                 ELSE IF next.raised THEN [made EXCEPT !.pc = "raised", !.raised = f.outcome]
                 ELSE Return(made, IF next.result = "func_result" THEN f.value
                                   ELSE EmptyList)]

\* ---- core_search (144-187) ----
CoreKeyMissingNever(e) == FALSE
CoreKeyMissing(e) == "CORE_API_KEY" \notin e

\* The whole call, requests.get doing resp if it is reached.
CoreSearch(e, q, resp) ==
    LET call == CallStart("core", e, q)
    IN IF QueryRejected(q) \/ CoreKeyMissing(e) THEN Return(call, EmptyList)
       ELSE LET made == Requested(call, resp)
            IN IF resp.status = "200" /\ IsDict(resp.body)
                  /\ HasLen(Get(resp.body, "results", EmptyList))
               THEN Return(made, Get(resp.body, "results", EmptyList))
               ELSE \* another status, or an exception caught at lines 179-187
                    \* (response.json(), data.get or len(papers) raised)
                    Return(made, EmptyList)

\* ---- crossref_search (189-227) ----
CrossrefSearch(e, q, resp) ==
    LET call == CallStart("crossref", e, q)
    IN IF QueryRejected(q) THEN Return(call, EmptyList)
       ELSE LET made == Requested(call, resp)
            IN IF resp.status = "200" /\ IsDict(resp.body)
                  /\ IsDict(Get(resp.body, "message", EmptyDict))
                  /\ HasLen(Get(Get(resp.body, "message", EmptyDict), "items", EmptyList))
               THEN Return(made, Get(Get(resp.body, "message", EmptyDict),
                                      "items", EmptyList))
               ELSE Return(made, EmptyList)

\* ---- GoogleScholarFallback (google_search_fallback.py) ----
\* s.replace(old, new)
RECURSIVE Replace(_, _, _)
Replace(s, old, new) ==
    IF s = "" THEN ""
    ELSE IF StartsWith(s, old) THEN new \o Replace(From(s, Len(old)), old, new)
    ELSE Head(s) \o Replace(Tail(s), old, new)

\* s.title(), prev_cased telling whether the previous character was a letter
RECURSIVE TitleFrom(_, _)
TitleFrom(s, prev_cased) ==
    IF s = "" THEN ""
    ELSE LET c == Head(s)
             cased == IsUpper(c) \/ IsLower(c)
         IN (IF prev_cased THEN LowerChar(c) ELSE UpperChar(c))
            \o TitleFrom(Tail(s), cased)
TitleCase(s) == TitleFrom(s, FALSE)

\* _extract_year: the first match of \b(19|20)\d{2}\b in text, or ''
LooseYearAt(s, i) ==
    /\ i + 3 <= Len(s)
    /\ SubSeq(s, i, i + 1) \in {"19", "20"}
    /\ IsDigit(Ch(s, i + 2)) /\ IsDigit(Ch(s, i + 3))
    /\ (i = 1 \/ ~IsWordChar(Ch(s, i - 1)))
    /\ (i + 3 = Len(s) \/ ~IsWordChar(Ch(s, i + 4)))
FallbackExtractYear(text) ==
    LET hits == {i \in 1..Len(text) : LooseYearAt(text, i)}
    IN IF hits = {} THEN ""
       ELSE LET i == CHOOSE i \in hits : \A j \in hits : i <= j
            IN SubSeq(text, i, i + 3)

\* _extract_authors: the first match of
\* [A-Z][a-z]+ [A-Z][a-z]+(?:, [A-Z][a-z]+ [A-Z][a-z]+)* in text, or ''.
\* The first position from i on that holds no lower-case letter:
RECURSIVE LowerRunEnd(_, _)
LowerRunEnd(s, i) ==
    IF i <= Len(s) /\ IsLower(Ch(s, i)) THEN LowerRunEnd(s, i + 1) ELSE i
\* [A-Z][a-z]+ at i: the position after the match, or 0
CapWordEnd(s, i) ==
    IF i + 1 <= Len(s) /\ IsUpper(Ch(s, i)) /\ IsLower(Ch(s, i + 1))
    THEN LowerRunEnd(s, i + 2) ELSE 0
\* [A-Z][a-z]+ [A-Z][a-z]+ at i: the position after the match, or 0
FullNameEnd(s, i) ==
    LET a == CapWordEnd(s, i)
    IN IF a = 0 \/ a > Len(s) \/ Ch(s, a) # " " THEN 0 ELSE CapWordEnd(s, a + 1)
\* (?:, [A-Z][a-z]+ [A-Z][a-z]+)* from j on, greedy: the position after it
RECURSIVE NameListEnd(_, _)
NameListEnd(s, j) ==
    IF j + 1 <= Len(s) /\ SubSeq(s, j, j + 1) = ", " /\ FullNameEnd(s, j + 2) # 0
    THEN NameListEnd(s, FullNameEnd(s, j + 2)) ELSE j
FallbackExtractAuthors(text) ==
    LET hits == {i \in 1..Len(text) : FullNameEnd(text, i) # 0}
    IN IF hits = {} THEN ""
       ELSE LET i == CHOOSE i \in hits : \A j \in hits : i <= j
            IN SubSeq(text, i, NameListEnd(text, FullNameEnd(text, i)) - 1)

\* _extract_journal
FallbackExtractJournal(display_link) ==
    CASE Contains(display_link, "arxiv.org") -> "arXiv"
      [] Contains(display_link, "scholar.google.com") -> "Google Scholar"
      [] Contains(display_link, "ieee.org") -> "IEEE"
      [] Contains(display_link, "acm.org") -> "ACM"
      [] Contains(display_link, "springer.com") -> "Springer"
      [] OTHER -> TitleCase(BeforeFirst(Replace(display_link, "www.", ""), "."))

\* Lines 58-66 raise on this item (the except of line 79 catches it): the item
\* has no .get, or its snippet or displayLink is not a str (re.search and the
\* 'in' tests of _extract_journal need one).
FallbackItemRaises(item) ==
    \/ ~IsDict(item)
    \/ ~IsStr(Get(item, "snippet", PyStr("")))
    \/ ~IsStr(Get(item, "displayLink", PyStr("")))

\* Lines 58-66: the paper built from one item
FallbackPaper(item) ==
    PyDict(<<"title", "url", "abstract", "source", "year", "authors", "journal_name">>,
           <<Get(item, "title", PyStr("")),
             Get(item, "link", PyStr("")),
             Get(item, "snippet", PyStr("")),
             Get(item, "displayLink", PyStr("")),
             PyStr(FallbackExtractYear(Get(item, "snippet", PyStr("")).s)),
             PyStr(FallbackExtractAuthors(Get(item, "snippet", PyStr("")).s)),
             PyStr(FallbackExtractJournal(Get(item, "displayLink", PyStr("")).s))>>)

\* search_papers (19-81) on an instance whose captured api_key is api_key
\* ("keyed" or "unkeyed"), requests.get doing resp if it is reached.
SearchPapers(api_key, e, q, resp) ==
    LET call == CallStart("fallback", e, q)
    IN IF api_key # "keyed" THEN Return(call, EmptyList)
       ELSE LET made == Requested(call, resp)
                items == Get(resp.body, "items", EmptyList)
            IN IF resp.status = "200" /\ IsDict(resp.body) /\ IsList(items)
                  /\ \A i \in 1..Len(items.items) : ~FallbackItemRaises(items.items[i])
               THEN Return(made, PyList([i \in 1..Len(items.items) |->
                                            FallbackPaper(items.items[i])]))
               ELSE Return(made, EmptyList)

(***************************************************************************)
(* The adapters on their own: the environment changes, the bot and the     *)
(* fallback are constructed, and the adapters are called with any query.   *)
(***************************************************************************)
\* required_keys (line 48)
RequiredKeys == {"S2_API_KEY", "CORE_API_KEY", "GOOGLE_API_KEY", "CONTACT_EMAIL"}

\* GoogleScholarFallback.__init__: self.api_key = os.getenv('GOOGLE_API_KEY')
FallbackCapture(e) == IF "GOOGLE_API_KEY" \in e THEN "keyed" ELSE "unkeyed"

\* The query arguments explored: None, empty, blank, and a topic.
Queries == {PyNone, PyStr(""), PyStr("   "), PyStr("deep learning")}

\* No adapter call is in progress and none has a result its caller has yet to take.
NoCallRunning == adapter_call.pc = "idle"

\* google_fallback is "unimportable" when the import of lines 18-23 failed
\* (bot.google_fallback is then None), "unset" before any instance is made.
InitAdapters ==
    /\ env \in SUBSET RequiredKeys
    /\ process = "running"
    /\ bot = "none"
    /\ google_fallback \in {"unset", "unimportable"}
    /\ adapter_call = [pc |-> "idle"]
    /\ hunt = [pc |-> "idle"]
    /\ RetryIdle /\ LLMIdle /\ ClockIdle /\ NormIdle /\ GenIdle /\ OptimizerIdle

\* os.environ[k] = value, by the deployment or a test's patch
EnvSet ==
    /\ process = "running" /\ NoCallRunning
    /\ \E k \in RequiredKeys \ env : env' = env \cup {k}
    /\ UNCHANGED <<process, bot, google_fallback, adapter_call, hunt>>
    /\ UNCHANGED <<varsRetry, varsLLM, now_year, varsGen, varsOptimizer, varsNorm>>

\* del os.environ[k], or os.environ[k] = ''
EnvUnset ==
    /\ process = "running" /\ NoCallRunning
    /\ \E k \in env : env' = env \ {k}
    /\ UNCHANGED <<process, bot, google_fallback, adapter_call, hunt>>
    /\ UNCHANGED <<varsRetry, varsLLM, now_year, varsGen, varsOptimizer, varsNorm>>

\* GapHunterBot() (lines 26-62): setup_api_keys loads the keys the .env file
\* gives (loaded: those it gives a value for and os.environ does not have),
\* exits the process when a required key is still missing, and otherwise the
\* fallback instance is made if its class could be imported.
BotInit ==
    /\ process = "running" /\ NoCallRunning
    /\ \E loaded \in SUBSET (RequiredKeys \ env) :
          /\ env' = env \cup loaded
          /\ IF RequiredKeys \subseteq env'
             THEN /\ bot' = "ready"
                  /\ google_fallback' = IF google_fallback = "unimportable"
                                        THEN "unimportable"
                                        ELSE FallbackCapture(env')
                  /\ UNCHANGED process
             ELSE /\ process' = "exited"      \* sys.exit(1)
                  /\ UNCHANGED <<bot, google_fallback>>
    /\ UNCHANGED <<adapter_call, hunt>>
    /\ UNCHANGED <<varsRetry, varsLLM, now_year, varsGen, varsOptimizer, varsNorm>>

\* GoogleScholarFallback() made on its own (test_google_fallback, line 114)
FallbackInit ==
    /\ process = "running" /\ NoCallRunning
    /\ google_fallback # "unimportable"
    /\ google_fallback' = FallbackCapture(env)
    /\ UNCHANGED <<env, process, bot, adapter_call, hunt>>
    /\ UNCHANGED <<varsRetry, varsLLM, now_year, varsGen, varsOptimizer, varsNorm>>

\* bot.s2_search(q) is called
S2Begin ==
    /\ process = "running" /\ NoCallRunning /\ bot = "ready"
    /\ \E q \in Queries : adapter_call' = S2Start(env, q)
    /\ retry' = RetryStart(DefaultMaxRetries, DefaultBaseDelay)
    /\ outcomes' = <<>>
    /\ UNCHANGED <<varsWorld, hunt>>
    /\ UNCHANGED <<varsLLM, now_year, varsGen, varsOptimizer, varsNorm>>

\* One iteration of retry_with_backoff over _s2_api_call
S2Request ==
    /\ adapter_call.pc = "running" /\ adapter_call.adapter = "s2"
    /\ RetryLoopContinues(retry)
    /\ \E resp \in S2Responses :
          LET a == S2Attempt(adapter_call, retry, resp)
          IN /\ adapter_call' = a.call
             /\ retry' = a.rs
             /\ outcomes' = Append(outcomes, S2ApiCall(resp).outcome)
    /\ UNCHANGED <<varsWorld, hunt>>
    /\ UNCHANGED <<varsLLM, now_year, varsGen, varsOptimizer, varsNorm>>

\* range(max_retries) is exhausted: return []
S2GiveUp ==
    /\ adapter_call.pc = "running" /\ adapter_call.adapter = "s2"
    /\ retry.pc = "loop" /\ ~RetryLoopContinues(retry)
    /\ retry' = RetryFallThrough(retry)
    /\ adapter_call' = Return(adapter_call, EmptyList)
    /\ UNCHANGED outcomes
    /\ UNCHANGED <<varsWorld, hunt>>
    /\ UNCHANGED <<varsLLM, now_year, varsGen, varsOptimizer, varsNorm>>

\* bot.core_search(q)
CoreSearchCall ==
    /\ process = "running" /\ NoCallRunning /\ bot = "ready"
    /\ \E q \in Queries, resp \in CoreResponses :
          adapter_call' = CoreSearch(env, q, resp)
    /\ UNCHANGED <<varsWorld, hunt>>
    /\ UNCHANGED <<varsRetry, varsLLM, now_year, varsGen, varsOptimizer, varsNorm>>

\* bot.crossref_search(q)
CrossrefSearchCall ==
    /\ process = "running" /\ NoCallRunning /\ bot = "ready"
    /\ \E q \in Queries, resp \in CrossrefResponses :
          adapter_call' = CrossrefSearch(env, q, resp)
    /\ UNCHANGED <<varsWorld, hunt>>
    /\ UNCHANGED <<varsRetry, varsLLM, now_year, varsGen, varsOptimizer, varsNorm>>

\* google_fallback.search_papers(q)
SearchPapersCall ==
    /\ process = "running" /\ NoCallRunning
    /\ google_fallback \in {"keyed", "unkeyed"}
    /\ \E q \in Queries, resp \in GoogleResponses :
          adapter_call' = SearchPapers(google_fallback, env, q, resp)
    /\ UNCHANGED <<varsWorld, hunt>>
    /\ UNCHANGED <<varsRetry, varsLLM, now_year, varsGen, varsOptimizer, varsNorm>>

\* The caller takes the value the adapter returned.
CallResultTaken ==
    /\ adapter_call.pc \in {"returned", "raised"}
    /\ hunt.pc = "idle"
    /\ adapter_call' = [pc |-> "idle"]
    /\ retry' = RetryStart(0, DefaultBaseDelay)
    /\ outcomes' = <<>>
    /\ UNCHANGED <<varsWorld, hunt>>
    /\ UNCHANGED <<varsLLM, now_year, varsGen, varsOptimizer, varsNorm>>

NextAdapters ==
    \/ EnvSet \/ EnvUnset \/ BotInit \/ FallbackInit
    \/ S2Begin \/ S2Request \/ S2GiveUp
    \/ CoreSearchCall \/ CrossrefSearchCall \/ SearchPapersCall
    \/ CallResultTaken

SpecAdapters == InitAdapters /\ [][NextAdapters]_vars

(***************************************************************************)
(* The curation helpers hunt_gaps calls on each paper                      *)
(***************************************************************************)
\* ' '.join(str(t) for t in items if t)
RECURSIVE JoinTruthy(_)
JoinTruthy(items) ==
    IF items = <<>> THEN ""
    ELSE LET rest == JoinTruthy(Tail(items))
         IN IF ~Truthy(Head(items)) THEN rest
            ELSE IF \A i \in 1..Len(Tail(items)) : ~Truthy(Tail(items)[i])
                 THEN StrOf(Head(items))
                 ELSE StrOf(Head(items)) \o " " \o rest

\* Lines 274-293 and 786-805: the text of a title or abstract field, lower-cased
FieldText(v) ==
    Lower(IF IsList(v) THEN JoinTruthy(v.items)
          ELSE IF v = PyNone THEN ""
          ELSE StrOf(v))

\* random.choice(seq) when the generator is in state rng
RandomChoice(seq, rng) == seq[(rng % Len(seq)) + 1]

\* gap_patterns (lines 307-348): the keywords and the gap text around the query
GapPatterns ==
    <<[keywords |-> <<"benchmark", "dataset", "performance", "speed", "efficiency">>,
       before |-> "Limited scalability of ", after |-> " methods in real-world applications"],
      [keywords |-> <<"black box", "interpretab", "explain", "transparent", "understand">>,
       before |-> "Lack of interpretability in ", after |-> " deep learning models"],
      [keywords |-> <<"evaluat", "metric", "validat", "test", "benchmark">>,
       before |-> "Insufficient evaluation of ", after |-> " across diverse datasets"],
      [keywords |-> <<"compar", "baseline", "state-of-art", "sota", "previous">>,
       before |-> "Missing comparison with state-of-the-art ", after |-> " methods"],
      [keywords |-> <<"generaliz", "transfer", "domain", "cross-domain", "adapt">>,
       before |-> "Limited generalization of ", after |-> " across different domains"],
      [keywords |-> <<"complex", "computation", "resource", "memory", "time">>,
       before |-> "Computational complexity of ", after |-> " not addressed"],
      [keywords |-> <<"bias", "fair", "ethic", "social", "responsible">>,
       before |-> "Ethical implications of ", after |-> " applications understudied"],
      [keywords |-> <<"robust", "adversar", "attack", "security", "noise">>,
       before |-> "Robustness of ", after |-> " to adversarial conditions unclear"]>>

GapText(k, query) == GapPatterns[k].before \o query \o GapPatterns[k].after

\* sum(1 for keyword in pattern['keywords'] if keyword in content)
GapScore(k, content) ==
    Cardinality({i \in 1..Len(GapPatterns[k].keywords) :
                   Contains(content, GapPatterns[k].keywords[i])})

\* gap_scores.sort(reverse=True) orders equal scores by the gap text, greatest
\* first; the texts differ before the query is reached, so the order of the
\* patterns among equal scores is always this one.
GapSortOrder == <<8, 4, 1, 5, 2, 3, 7, 6>>

\* Lines 351-365: the gap for the lower-cased content of a paper
SelectedGap(content, query, rng) ==
    LET best == CHOOSE b \in 0..5 :
                   /\ \E k \in 1..Len(GapPatterns) : GapScore(k, content) = b
                   /\ \A k \in 1..Len(GapPatterns) : GapScore(k, content) <= b
        first == CHOOSE i \in 1..Len(GapSortOrder) :
                   /\ GapScore(GapSortOrder[i], content) = best
                   /\ \A j \in 1..(i - 1) : GapScore(GapSortOrder[j], content) # best
    IN IF best > 0
       THEN [gap |-> GapText(GapSortOrder[first], query), random |-> FALSE]
       ELSE [gap |-> GapText((rng % Len(GapPatterns)) + 1, query), random |-> TRUE]

\* extract_research_gap (271-365): the gap, and whether random.choice was used
ExtractResearchGap(paper, query, rng) ==
    SelectedGap(IF IsDict(paper)
                THEN FieldText(Get(paper, "title", PyStr(""))) \o " "
                     \o FieldText(Get(paper, "abstract", PyStr("")))
                ELSE " ",      \* paper.get raised: both texts are ''
                query, rng)

\* expansions (369-378), values[:2] of each
Expansions ==
    <<[key |-> "scalability", values |-> {"performance", "efficiency"}],
      [key |-> "interpretability", values |-> {"explainable", "transparency"}],
      [key |-> "evaluation", values |-> {"benchmarking", "metrics"}],
      [key |-> "comparison", values |-> {"baseline", "state-of-art"}],
      [key |-> "generalization", values |-> {"transfer", "adaptation"}],
      [key |-> "complexity", values |-> {"optimization", "computational"}],
      [key |-> "ethical", values |-> {"fairness", "bias"}],
      [key |-> "adversarial", values |-> {"security", "attacks"}]>>

\* expand_keywords (367-398). The list is made from a set, whose iteration
\* order is not fixed: the result is given as the set the entries are taken
\* from (keywords), the padding entry, and the length of the list.
ExpandKeywords(gap, query) ==
    LET gap_words == Split(Lower(gap))
        query_words == Split(Lower(query))
        first_two == {query_words[i] : i \in 1..(IF Len(query_words) < 2
                                                  THEN Len(query_words) ELSE 2)}
        expanded == UNION {Expansions[e].values :
                             e \in {x \in 1..Len(Expansions) :
                                      \E w \in 1..Len(gap_words) :
                                         Contains(gap_words[w], Expansions[x].key)}}
        keywords == first_two \cup expanded
        n == Cardinality(keywords)
    IN [keywords |-> keywords,
        padding |-> Split(query)[1] \o "-related",
        len |-> IF n > 5 THEN 5 ELSE IF n < 3 THEN 3 ELSE n]

\* year >= 2023, year <= 2020: a TypeError unless year is a number
ComparesWithInt(v) == v.t = "int"

\* calculate_novelty_score (400-417): [raised, score]
CalculateNoveltyScore(paper, gap) ==
    LET g == Lower(gap)
        base == 3 + (IF \E w \in {"limited", "lack", "insufficient"} : Contains(g, w)
                     THEN 1 ELSE 0)
                  + (IF \E w \in {"unclear", "understudied"} : Contains(g, w)
                     THEN 1 ELSE 0)
        year == Get(paper, "year", PyInt(2020))
        score == IF year.n >= 2023 THEN base + 1
                 ELSE IF year.n <= 2020 THEN base - 1 ELSE base
    IN IF ~ComparesWithInt(year) THEN [raised |-> "TypeError", score |-> 0]
       ELSE [raised |-> "none",
             score |-> IF score > 5 THEN 5 ELSE IF score < 1 THEN 1 ELSE score]

\* check_q1_journal (257-269)
Q1Indicators ==
    {"nature", "science", "cell", "lancet", "nejm", "jama", "ieee transactions",
     "acm transactions", "springer", "journal of machine learning research", "plos one"}
CheckQ1Journal(journal_name) ==
    journal_name # "" /\ \E ind \in Q1Indicators : Contains(Lower(journal_name), ind)

\* Lines 857-867: the 'paper' string of a result
PaperString(info) ==
    LET base == info.first_author \o " " \o info.year \o " " \o info.title
        safe == IF Contains(Lower(base), "unavailable")
                THEN "Author " \o info.year \o " Research Paper" ELSE base
    IN IF Truthy(info.doi) THEN safe \o " https://doi.org/" \o info.doi.s ELSE safe

(***************************************************************************)
(* hunt_gaps (clean_gap_hunter.py 669-881)                                 *)
(***************************************************************************)
QueryMinLen == 3           \* len(query) < 3
QueryLimit == 200          \* query[:200]
RecencyWindow == 10        \* datetime.now().year - 10
RecentFallbackLimit == 10  \* all_papers[:10]
MinRelevant == 3           \* len(relevant_papers) < 3
MaxResults == 5            \* relevant_papers[:5]
MaxSeed == 1

\* The error entries hunt_gaps returns
ErrorEntry(error_type) ==
    [error_type |-> error_type,
     error |-> CASE error_type = "validation" -> "Please provide a research topic"
                 [] error_type = "api_failure" ->
                      "All research databases are currently unavailable"
                 [] error_type = "no_results" ->
                      "No papers found for this research topic"
                 [] OTHER -> "No relevant recent papers found for this research topic",
     suggestion |->
          CASE error_type = "validation" ->
                 "Try entering a specific research area like 'machine learning' or 'computer vision'"
            [] error_type = "api_failure" ->
                 "Please check your internet connection and try again in a few minutes"
            [] error_type = "no_results" ->
                 "Try using broader search terms or check spelling"
            [] OTHER -> "Try using more general terms or a different research area"]
ShortQueryEntry ==
    [error_type |-> "validation",
     error |-> "Please provide a more detailed research topic (at least 3 characters)",
     suggestion |-> "Add more specific terms to your query"]

\* The locals of a call of hunt_gaps that has passed validation
HuntFrame(query) ==
    [pc |-> "s2", arg |-> PyNone, query |-> query, rng |-> 0, calls |-> <<>>,
     reached |-> {},
     api_results |-> <<>>, api_failures |-> 0, all_papers |-> <<>>,
     recent_papers |-> <<>>, relevant_papers |-> <<>>, results |-> <<>>,
     returned |-> <<>>, raised |-> "none"]

HuntReturned(h, value) == [h EXCEPT !.pc = "returned", !.returned = value]
HuntRaised(h, exc) == [h EXCEPT !.pc = "raised", !.raised = exc]

\* Lines 672-683 on the locals f, the argument being q
Validated(f, q) ==
    IF ~Truthy(q) THEN HuntReturned(f, <<ErrorEntry("validation")>>)
    ELSE IF q.t # "str" THEN HuntRaised(f, "AttributeError")  \* query.strip
    ELSE IF Len(f.query) < QueryMinLen THEN HuntReturned(f, <<ShortQueryEntry>>)
    ELSE f

\* Lines 672-683 without lines 681-683
HuntEnterUntruncated(q) ==
    Validated([HuntFrame(IF IsStr(q) THEN Strip(q.s) ELSE "") EXCEPT !.arg = q], q)

\* Lines 672-683
HuntEnter(q) ==
    Validated([HuntFrame(IF IsStr(q) THEN Prefix(Strip(q.s), QueryLimit) ELSE "")
                 EXCEPT !.arg = q], q)

\* list.extend(v): the elements iterating v gives
Iterate(v) ==
    CASE v.t = "list" -> v.items
      [] v.t = "str" -> [i \in 1..Len(v.s) |-> PyStr(SubSeq(v.s, i, i))]
      [] v.t = "dict" -> [i \in 1..Len(v.keys) |-> PyStr(v.keys[i])]
      [] OTHER -> <<>>

\* Lines 692-713: one primary adapter has returned (call is its finished call)
MergedInFront(h, call) ==
    [h EXCEPT !.calls = Append(@, call.adapter),
              !.reached = IF call.reached THEN @ \cup {call.adapter} ELSE @,
              !.all_papers = Iterate(call.result) \o @,
              !.api_results = Append(@, [api |-> call.adapter,
                                         count |-> PyLen(call.result)]),
              !.api_failures = IF PyLen(call.result) = 0 THEN @ + 1 ELSE @]
Merged(h, call) ==
    [h EXCEPT !.calls = Append(@, call.adapter),
              !.reached = IF call.reached THEN @ \cup {call.adapter} ELSE @,
              !.all_papers = @ \o Iterate(call.result),
              !.api_results = Append(@, [api |-> call.adapter,
                                         count |-> PyLen(call.result)]),
              !.api_failures = IF PyLen(call.result) = 0 THEN @ + 1 ELSE @]

\* Line 719: if self.google_fallback and len(all_papers) == 0
FallbackNeverWanted(h, fallback) == FALSE
FallbackWanted(h, fallback) ==
    /\ h.api_failures = 3
    /\ fallback \in {"keyed", "unkeyed"}
    /\ Len(h.all_papers) = 0

\* Lines 722-724: the fallback has returned (call is its finished call)
FallbackMerged(h, call) ==
    [h EXCEPT !.calls = Append(@, call.adapter),
              !.reached = IF call.reached THEN @ \cup {call.adapter} ELSE @,
              !.all_papers = IF Truthy(call.result) THEN @ \o Iterate(call.result) ELSE @]

\* Lines 718-750 once the fallback, if it was called, has returned
AfterSources(h) ==
    IF Len(h.all_papers) = 0
    THEN HuntReturned(h, <<ErrorEntry(IF h.api_failures = 3 THEN "api_failure"
                                      ELSE "no_results")>>)
    ELSE [h EXCEPT !.pc = "filter"]

\* Lines 757-767, inside try/except: the year of a record, or None
RecencyYear(paper) ==
    IF ~HasLen(paper) THEN PyNone           \* 'year' in paper raises
    ELSE IF ~IsDict(paper) THEN PyNone      \* paper['year'] raises, or no branch is taken
    ELSE IF HasKey(paper, "year") /\ Truthy(Item(paper, "year")) THEN Item(paper, "year")
    ELSE IF HasKey(paper, "published") /\ Truthy(Item(paper, "published"))
         THEN LET pub == Item(paper, "published")
              IN IF IsDict(pub) /\ HasKey(pub, "date-parts")
                    /\ HasFirst(Item(pub, "date-parts"))
                    /\ HasFirst(First(Item(pub, "date-parts")))
                 THEN First(First(Item(pub, "date-parts")))
                 ELSE PyNone
    ELSE IF HasKey(paper, "publishedDate") /\ Truthy(Item(paper, "publishedDate"))
         THEN LET c == IntOf(PyStr(Prefix(StrOf(Item(paper, "publishedDate")), 4)))
              IN IF c.ok THEN PyInt(c.n) ELSE PyNone
    ELSE PyNone

\* Lines 755-771: year >= cutoff_year is outside the try statement
RECURSIVE RecentLoop(_, _, _)
RecentLoop(papers, cutoff_year, recent) ==
    IF papers = <<>> THEN [raised |-> "none", papers |-> recent]
    ELSE LET year == RecencyYear(Head(papers))
         IN IF year = PyNone
            THEN RecentLoop(Tail(papers), cutoff_year, Append(recent, Head(papers)))
            ELSE IF ~ComparesWithInt(year)
            THEN [raised |-> "TypeError", papers |-> recent]
            ELSE RecentLoop(Tail(papers), cutoff_year,
                            IF year.n >= cutoff_year
                            THEN Append(recent, Head(papers)) ELSE recent)

\* Lines 784-815: the record passes the relevance filter
IsRelevant(paper, query_words) ==
    IF ~IsDict(paper) THEN TRUE             \* paper.get raises: the record is kept
    ELSE LET title_lower == FieldText(Get(paper, "title", PyStr("")))
             abstract_lower == FieldText(Get(paper, "abstract", PyStr("")))
         IN \/ \E w \in 1..Len(query_words) :
                  \/ Contains(title_lower, query_words[w])
                  \/ Contains(abstract_lower, query_words[w])
            \/ Strip(title_lower) = ""
            \/ Strip(abstract_lower) = ""

RECURSIVE RelevantLoop(_, _)
RelevantLoop(papers, query_words) ==
    IF papers = <<>> THEN <<>>
    ELSE IF IsRelevant(Head(papers), query_words)
         THEN <<Head(papers)>> \o RelevantLoop(Tail(papers), query_words)
         ELSE RelevantLoop(Tail(papers), query_words)

\* seq[:n]
FirstNUncapped(seq, n) == seq
FirstN(seq, n) == IF Len(seq) <= n THEN seq ELSE SubSeq(seq, 1, n)

\* Lines 775-778: an empty recency-filtered list is replaced by all_papers[:10]
WithoutRecentFallback(recent_papers, all_papers) == recent_papers
WithRecentFallback(recent_papers, all_papers) ==
    IF Len(recent_papers) = 0 THEN FirstN(all_papers, RecentFallbackLimit)
    ELSE recent_papers

\* Lines 752-831 when the year now is year_now
Filtered(h, year_now) ==
    LET r == RecentLoop(h.all_papers, year_now - RecencyWindow, <<>>)
        recent == WithRecentFallback(r.papers, h.all_papers)
        matching == RelevantLoop(recent, Split(Lower(h.query)))
        relevant == IF Len(matching) < MinRelevant THEN recent ELSE matching
        kept == [h EXCEPT !.recent_papers = recent, !.relevant_papers = relevant]
    IN IF r.raised # "none" THEN HuntRaised(h, r.raised)
       ELSE IF Len(relevant) < 1 THEN HuntReturned(kept, <<ErrorEntry("insufficient_data")>>)
       ELSE [kept EXCEPT !.pc = "process"]

\* generate_next_steps (419-427): the three sentences, {0} {1} {2} standing for
\* keywords[0], keywords[1], keywords[2]
NextStepTemplates ==
    <<"Design experiments using {0} and {1} methodologies. Collect datasets focusing on {2} domains.",
      "Develop {0} framework addressing {1} limitations. Validate across {2} scenarios.",
      "Implement {0} solution incorporating {1} techniques. Benchmark against {2} baselines.">>

\* Lines 849-879: the result entry, the gap being g and the score scored
ResultEntry(paper_info, g, keywords, scored, rng) ==
    [paper |-> PaperString(paper_info),
     gap |-> g.gap,
     keywords |-> keywords,
     score |-> scored.score,
     note |-> IF scored.score < 3 THEN "rethink" ELSE "",
     q1 |-> CheckQ1Journal(paper_info.journal_name),
     NEXT_STEPS |-> RandomChoice(NextStepTemplates, rng)]

\* Lines 843-879 after extract_paper_info and extract_research_gap returned
Scored(h, paper_info, g, scored) ==
    IF scored.raised # "none"
    THEN HuntRaised([h EXCEPT !.rng = IF g.random THEN @ + 1 ELSE @], scored.raised)
    ELSE [h EXCEPT
            !.rng = IF g.random THEN @ + 2 ELSE @ + 1,
            !.results = Append(@, ResultEntry(paper_info, g,
                                              ExpandKeywords(g.gap, h.query), scored,
                                              IF g.random THEN h.rng + 1 ELSE h.rng))]

\* Lines 835-879 on one record
ProcessedPaper(h, paper, paper_info, g) ==
    IF paper_info.raised # "none" THEN HuntRaised(h, paper_info.raised)
    ELSE Scored(h, paper_info, g, CalculateNoveltyScore(paper, g.gap))

\* Lines 835-879: one iteration of the loop, on the next of relevant_papers[:5]
Processed(h) ==
    ProcessedPaper(h, h.relevant_papers[Len(h.results) + 1],
                   ExtractPaperInfo(h.relevant_papers[Len(h.results) + 1]),
                   ExtractResearchGap(h.relevant_papers[Len(h.results) + 1],
                                      h.query, h.rng))

(***************************************************************************)
(* One call of hunt_gaps on a constructed bot                              *)
(***************************************************************************)
\* A query of more than 200 characters after stripping
RECURSIVE Repeat(_, _)
Repeat(s, n) == IF n = 0 THEN "" ELSE s \o Repeat(s, n - 1)
LongQuery == PyStr(" " \o Repeat("graph", 41))

HuntQueries ==
    {PyNone, PyStr(""), PyStr(" ab "), PyStr("deep learning"), PyStr(" graph mining "),
     PyStr("quantum theory"), LongQuery}

\* The calendar years of the calls: the oldest record of the last ten years
\* (CorePaperMining) is inside the recency window in the first, outside it in
\* the second.
HuntYears == {2025, 2026}

InitHunt ==
    /\ env = RequiredKeys
    /\ process = "running"
    /\ bot = "ready"
    /\ google_fallback \in {"keyed", "unimportable"}
    /\ adapter_call = [pc |-> "idle"]
    /\ hunt = [pc |-> "idle"]
    /\ now_year \in HuntYears
    /\ RetryIdle /\ LLMIdle /\ NormIdle /\ GenIdle /\ OptimizerIdle

HuntBegin ==
    /\ process = "running" /\ bot = "ready" /\ NoCallRunning
    /\ hunt.pc = "idle"
    /\ \E q \in HuntQueries : hunt' = HuntEnter(q)
    /\ UNCHANGED <<varsWorld, adapter_call>>
    /\ UNCHANGED <<varsRetry, varsLLM, now_year, varsGen, varsOptimizer, varsNorm>>

\* Line 693: self.s2_search(query) is entered
HuntS2Begin ==
    /\ hunt.pc = "s2"
    /\ adapter_call' = S2Start(env, PyStr(hunt.query))
    /\ retry' = RetryStart(DefaultMaxRetries, DefaultBaseDelay)
    /\ outcomes' = <<>>
    /\ hunt' = [hunt EXCEPT !.pc = "s2_running"]
    /\ UNCHANGED varsWorld
    /\ UNCHANGED <<varsLLM, now_year, varsGen, varsOptimizer, varsNorm>>

\* Lines 693-698: s2_search has returned
HuntS2End ==
    /\ hunt.pc = "s2_running"
    /\ adapter_call.pc = "returned"
    /\ hunt' = [Merged(hunt, adapter_call) EXCEPT !.pc = "core"]
    /\ adapter_call' = [pc |-> "idle"]
    /\ retry' = RetryStart(0, DefaultBaseDelay)
    /\ outcomes' = <<>>
    /\ UNCHANGED varsWorld
    /\ UNCHANGED <<varsLLM, now_year, varsGen, varsOptimizer, varsNorm>>

\* Lines 700-706
HuntCore ==
    /\ hunt.pc = "core"
    /\ \E resp \in CoreResponses :
          hunt' = [Merged(hunt, CoreSearch(env, PyStr(hunt.query), resp))
                     EXCEPT !.pc = "crossref"]
    /\ UNCHANGED <<varsWorld, adapter_call>>
    /\ UNCHANGED <<varsRetry, varsLLM, now_year, varsGen, varsOptimizer, varsNorm>>

\* Lines 708-714
HuntCrossref ==
    /\ hunt.pc = "crossref"
    /\ \E resp \in CrossrefResponses :
          hunt' = [Merged(hunt, CrossrefSearch(env, PyStr(hunt.query), resp))
                     EXCEPT !.pc = "sources"]
    /\ UNCHANGED <<varsWorld, adapter_call>>
    /\ UNCHANGED <<varsRetry, varsLLM, now_year, varsGen, varsOptimizer, varsNorm>>

\* Lines 718-750, the fallback called at line 722
HuntFallback ==
    /\ hunt.pc = "sources"
    /\ FallbackWanted(hunt, google_fallback)
    /\ \E resp \in GoogleResponses :
          hunt' = AfterSources(FallbackMerged(hunt,
                     SearchPapers(google_fallback, env, PyStr(hunt.query), resp)))
    /\ UNCHANGED <<varsWorld, adapter_call>>
    /\ UNCHANGED <<varsRetry, varsLLM, now_year, varsGen, varsOptimizer, varsNorm>>

\* Lines 718-750 when the fallback is not called
HuntNoFallback ==
    /\ hunt.pc = "sources"
    /\ ~FallbackWanted(hunt, google_fallback)
    /\ hunt' = AfterSources(hunt)
    /\ UNCHANGED <<varsWorld, adapter_call>>
    /\ UNCHANGED <<varsRetry, varsLLM, now_year, varsGen, varsOptimizer, varsNorm>>

\* Lines 752-831; the generator of the random module is in any state
HuntFilter ==
    /\ hunt.pc = "filter"
    /\ \E seed \in 0..MaxSeed : hunt' = [Filtered(hunt, now_year) EXCEPT !.rng = seed]
    /\ UNCHANGED <<varsWorld, adapter_call>>
    /\ UNCHANGED <<varsRetry, varsLLM, now_year, varsGen, varsOptimizer, varsNorm>>

\* Lines 835-879: the next record is processed
HuntProcess ==
    /\ hunt.pc = "process"
    /\ Len(hunt.results) < Len(FirstN(hunt.relevant_papers, MaxResults))
    /\ hunt' = Processed(hunt)
    /\ UNCHANGED <<varsWorld, adapter_call>>
    /\ UNCHANGED <<varsRetry, varsLLM, now_year, varsGen, varsOptimizer, varsNorm>>

\* Line 881
HuntReturn ==
    /\ hunt.pc = "process"
    /\ Len(hunt.results) = Len(FirstN(hunt.relevant_papers, MaxResults))
    /\ hunt' = HuntReturned(hunt, hunt.results)
    /\ UNCHANGED <<varsWorld, adapter_call>>
    /\ UNCHANGED <<varsRetry, varsLLM, now_year, varsGen, varsOptimizer, varsNorm>>

NextHunt ==
    \/ HuntBegin
    \/ HuntS2Begin \/ S2Request \/ S2GiveUp \/ HuntS2End
    \/ HuntCore \/ HuntCrossref
    \/ HuntFallback \/ HuntNoFallback
    \/ HuntFilter \/ HuntProcess \/ HuntReturn

SpecHunt == InitHunt /\ [][NextHunt]_vars

(***************************************************************************)
(* Claims about the retry engine                                           *)
(***************************************************************************)
FailedOutcomes == {"empty", "Timeout", "ConnectionError"}

\* C3: retry_with_backoff invokes the wrapped operation at most max_retries
\* times, whatever the operation does on each attempt (every outcome log is
\* explored, for every max_retries in 0..MaxRetriesArg, the default 3 included).
C3_AtMostMaxRetriesCalls ==
    /\ retry.calls = Len(outcomes)
    /\ retry.calls <= retry.max_retries

\* C3 witness: a call with the default max_retries has used all three attempts.
C3_Witness ==
    /\ retry.max_retries = DefaultMaxRetries
    /\ retry.pc = "returned"
    /\ retry.calls = DefaultMaxRetries
    /\ \E i \in 1..Len(outcomes) : outcomes[i] = "Timeout"

\* C4: retry_with_backoff never raises; a non-empty result ends the call at once
\* (it is the last attempt and is what the call returns); and when all
\* max_retries attempts gave an empty result or a timeout/connection error no
\* further attempt is possible and the call returns the empty list.
C4_NeverRaisesFirstSuccessOrEmpty ==
    /\ ~retry.raised
    /\ \A i \in 1..Len(outcomes) :
          outcomes[i] = "nonempty" =>
             /\ i = Len(outcomes)
             /\ retry.pc = "returned"
             /\ retry.result = "func_result"
    /\ (retry.pc = "returned" /\ retry.result = "func_result") =>
          (Len(outcomes) > 0 /\ outcomes[Len(outcomes)] = "nonempty")
    /\ (Len(outcomes) = retry.max_retries
          /\ \A i \in 1..Len(outcomes) : outcomes[i] \in FailedOutcomes) =>
          /\ ~RetryLoopContinues(retry)
          /\ retry.pc = "returned" => retry.result = "empty_list"

\* C4 witness: three attempts failed (empty, timeout, connection error) and the
\* call returned the empty list.
C4_Witness ==
    /\ retry.pc = "returned"
    /\ retry.result = "empty_list"
    /\ outcomes = <<"empty", "Timeout", "ConnectionError">>

(***************************************************************************)
(* Claims about the LLM dispatcher                                         *)
(***************************************************************************)
\* The providers on which generation was attempted, in call order.
GenerationAttempts == SelectSeq(llm_log, LAMBDA e : e.created)

RegistryIndex(p) == CHOOSE i \in 1..Len(providers_config) : providers_config[i] = p

\* The configured providers other than p, in the registry's declared order.
OthersInRegistryOrder(p) == SelectSeq(providers_config, LAMBDA q : q # p)

\* C7: with the preferred provider A lacking its credential and the other two
\* providers B, C (in registry order) having theirs, generation is attempted on
\* B and then, only if B failed, on C; never on A; and the call returns the
\* first of them that succeeds, trying no later one.
C7_FallbackOrder ==
    (/\ preferred_provider \in SupportedProviders
     /\ preferred_provider \notin llm_keys
     /\ llm_keys = SupportedProviders \ {preferred_provider}
     /\ llm_pc \in {"try", "returned", "raised"}) =>
       LET bc == OthersInRegistryOrder(preferred_provider)
           gens == GenerationAttempts
       IN /\ Len(gens) <= 2
          /\ \A i \in 1..Len(gens) :
                /\ gens[i].provider = bc[i]
                /\ gens[i].provider # preferred_provider
                /\ gens[i].gen_calls >= 1
                /\ (i < Len(gens) => ~gens[i].ok)
          /\ llm_pc = "returned" =>
                /\ Len(gens) >= 1
                /\ gens[Len(gens)].ok
                /\ llm_result.provider = gens[Len(gens)].provider
          /\ llm_pc = "raised" =>
                (Len(gens) = 2 /\ ~gens[1].ok /\ ~gens[2].ok)

\* C7 witness: A = openai is preferred and has no key; B failed, C succeeded.
C7_Witness ==
    /\ preferred_provider = "openai"
    /\ llm_keys = {"anthropic", "google"}
    /\ llm_pc = "returned"
    /\ Len(GenerationAttempts) = 2
    /\ llm_result.provider = OthersInRegistryOrder("openai")[2]

\* C8: generate_with_fallback returns the first candidate whose generation
\* succeeded (every candidate before it failed), raises exactly when every
\* candidate failed or there is none, and with no credential at all and no
\* preferred provider the error is "No available LLM providers found".
C8_FirstSuccessOrRaise ==
    /\ llm_pc \in {"try", "returned", "raised"} =>
          /\ Len(llm_log) <= Len(providers_to_try)
          /\ \A i \in 1..Len(llm_log) :
                /\ llm_log[i].provider = providers_to_try[i]
                /\ (i < Len(llm_log) => ~llm_log[i].ok)
                /\ (llm_log[i].ok => llm_pc = "returned")
    /\ llm_pc = "returned" =>
          /\ Len(llm_log) >= 1
          /\ llm_log[Len(llm_log)].ok
          /\ llm_result = [kind |-> "return",
                           provider |-> providers_to_try[Len(llm_log)]]
    /\ llm_pc = "raised" =>
          /\ Len(llm_log) = Len(providers_to_try)
          /\ \A i \in 1..Len(llm_log) : ~llm_log[i].ok
          /\ llm_result.kind = "raise"
          /\ (providers_to_try = <<>> <=>
                llm_result.message = "No available LLM providers found")
    /\ (llm_pc = "raised" /\ llm_keys = {} /\ preferred_provider = "None") =>
          llm_result.message = "No available LLM providers found"

\* C8 witness: no credential, no preferred provider, the call has raised.
C8_Witness ==
    /\ llm_pc = "raised"
    /\ llm_keys = {}
    /\ preferred_provider = "None"
    /\ llm_result.kind = "raise"

(***************************************************************************)
(* Claims about the search adapters                                        *)
(***************************************************************************)
\* The query is the empty string or consists of whitespace only.
IsBlankQuery(q) == IsStr(q) /\ Strip(q.s) = ""

\* The call returned the empty list, raised nothing and made no HTTP request.
ReturnedEmptyWithoutRequest(call) ==
    /\ call.pc = "returned"
    /\ call.result = EmptyList
    /\ call.raised = "none"
    /\ call.requests = 0

\* C6: called with an empty or whitespace-only query, every adapter (Semantic
\* Scholar, CORE, Crossref, the fallback) returns [] and makes no HTTP request.
C6_BlankQueryNoRequest ==
    (adapter_call.pc # "idle" /\ IsBlankQuery(adapter_call.query)) =>
        ReturnedEmptyWithoutRequest(adapter_call)

\* The environment variable that holds an adapter's credential.
CredentialOf(adapter) ==
    CASE adapter = "s2" -> "S2_API_KEY"
      [] adapter = "core" -> "CORE_API_KEY"
      [] adapter = "fallback" -> "GOOGLE_API_KEY"

KeyedAdapters == {"s2", "core", "fallback"}

\* C10 as stated: an adapter whose credential is absent from the environment
\* when search is called returns [] without raising and without an HTTP request.
C10_AbsentAtCallTime ==
    (/\ adapter_call.pc # "idle"
     /\ adapter_call.adapter \in KeyedAdapters
     /\ CredentialOf(adapter_call.adapter) \notin adapter_call.env) =>
        ReturnedEmptyWithoutRequest(adapter_call)

\* C10 amended: Semantic Scholar and CORE return [] without raising and without
\* an HTTP request when their credential is absent from the environment at the
\* time of the call; the fallback adapter does so when no GOOGLE_API_KEY was
\* present at the time the instance was constructed (the key it captured then
\* is the one it uses, whatever the environment holds at the time of the call).
C10_AbsentCredentialNoRequest ==
    /\ (/\ adapter_call.pc # "idle"
        /\ adapter_call.adapter \in {"s2", "core"}
        /\ CredentialOf(adapter_call.adapter) \notin adapter_call.env) =>
           ReturnedEmptyWithoutRequest(adapter_call)
    /\ (/\ adapter_call.pc # "idle"
        /\ adapter_call.adapter = "fallback"
        /\ google_fallback = "unkeyed") =>
           ReturnedEmptyWithoutRequest(adapter_call)

\* C10 witness: a fallback instance constructed while GOOGLE_API_KEY was absent
\* has been called with a topic and has returned.
C10_Witness ==
    /\ adapter_call.pc = "returned"
    /\ adapter_call.adapter = "fallback"
    /\ adapter_call.query = PyStr("deep learning")
    /\ google_fallback = "unkeyed"

(***************************************************************************)
(* Claims about the normalizer                                             *)
(***************************************************************************)
\* The bounds of a returned record: a non-empty title of at most 50 characters,
\* a non-empty first_author of at most 15, a year of four digits, and a doi that
\* is null or a non-empty string.
InfoWithinBounds(info) ==
    /\ info.title # "" /\ Len(info.title) <= TitleLimit
    /\ info.first_author # "" /\ Len(info.first_author) <= AuthorLimit
    /\ Len(info.year) = 4 /\ IsDigitStr(info.year)
    /\ (info.doi = PyNone \/ (IsStr(info.doi) /\ info.doi.s # ""))

\* C5: extract_paper_info is total: for every input record the call returns
\* (it raises nothing) and the returned fields are within their bounds.
C5_NormalizerTotal ==
    norm_info # NotCalled =>
        /\ norm_info.raised = "none"
        /\ InfoWithinBounds(norm_info)

\* C19: no construction or use of the bot with a credential absent ends the
\* process.
C19_NoExitOnMissingCredential == process # "exited"

Returned(info) == info # NotCalled /\ info.raised = "none"

InfoTexts(info) ==
    {info.title, info.first_author, info.year, info.journal_name}
    \cup (IF IsStr(info.doi) THEN {info.doi.s} ELSE {})

\* C13: no field of the record extract_paper_info returns contains
\* 'unavailable', in any letter case.
C13_NoFieldUnavailable ==
    Returned(norm_info) =>
        \A text \in InfoTexts(norm_info) : ~Contains(Lower(text), "unavailable")

\* s matches ^10\.[^/]+/.+$ : '10.', then at least one character before the
\* first '/', then at least one character after it.
MatchesDoiPattern(s) ==
    /\ StartsWith(s, "10.")
    /\ \E i \in 5..(Len(s) - 1) :
          /\ Ch(s, i) = "/"
          /\ \A j \in 4..(i - 1) : Ch(s, j) # "/"

\* C14: a doi extract_paper_info returns is longer than 7 characters and
\* matches ^10\.[^/]+/.+$
C14_DoiShape ==
    (Returned(norm_info) /\ norm_info.doi # PyNone) =>
        /\ Len(norm_info.doi.s) > 7
        /\ MatchesDoiPattern(norm_info.doi.s)

\* No field of the record gives a year between 1900 and the year now.
NoYearRecoverable(paper, year_now) ==
    /\ YearLoop(paper, 1, year_now) = ""
    /\ YearScan(paper, 1, year_now) = ""

\* C15: when no year can be recovered from the record, or every candidate is
\* out of range, the year returned is the calendar year at the time of the call.
C15_DefaultsToCalendarYear ==
    (Returned(norm_info) /\ NoYearRecoverable(norm_paper, now_year)) =>
        norm_info.year = IntToStr(now_year)

\* The failures the retry engine is for: a timeout, a connection error, an
\* HTTP 5xx or an HTTP 429.
TransientStatuses == {"Timeout", "ConnectionError", "500", "429"}

PrimaryAdapters == {"s2", "core", "crossref"}

\* C11: a call of a primary adapter whose requests all failed transiently
\* made max_retries requests before it returned [].
C11_TransientFailureRetried ==
    (/\ adapter_call.pc = "returned"
     /\ adapter_call.adapter \in PrimaryAdapters
     /\ adapter_call.requests >= 1
     /\ \A i \in 1..Len(adapter_call.statuses) :
           adapter_call.statuses[i] \in TransientStatuses)
    => /\ adapter_call.requests = DefaultMaxRetries
       /\ adapter_call.result = EmptyList

(***************************************************************************)
(* Claims about hunt_gaps                                                  *)
(***************************************************************************)
\* The call passed validation and is past line 741: every source that is
\* going to be called has been called.
SourcesDone ==
    /\ hunt.pc \in {"filter", "process", "returned", "raised"}
    /\ Len(hunt.api_results) = 3

FallbackCalls == Cardinality({i \in 1..Len(hunt.calls) : hunt.calls[i] = "fallback"})

AllPrimariesEmpty == \A i \in 1..Len(hunt.api_results) : hunt.api_results[i].count = 0

FallbackPresent == google_fallback # "unimportable"

HuntReturnedError(error_type) ==
    /\ hunt.pc = "returned"
    /\ Len(hunt.returned) = 1
    /\ "error_type" \in DOMAIN hunt.returned[1]
    /\ hunt.returned[1].error_type = error_type

\* C1: in a hunt_gaps call with a valid query, search_papers of the fallback
\* is invoked exactly once when the three primary adapters all returned empty
\* lists and a fallback is present, and never when a primary adapter returned
\* a non-empty list (nor before the three primaries have returned).
C1_FallbackOnceIffAllEmpty ==
    /\ hunt.pc # "idle" => FallbackCalls <= 1
    /\ (hunt.pc # "idle" /\ Len(hunt.api_results) < 3) => FallbackCalls = 0
    /\ SourcesDone =>
          /\ (AllPrimariesEmpty /\ FallbackPresent) => FallbackCalls = 1
          /\ ~AllPrimariesEmpty => FallbackCalls = 0

C1_Witness ==
    /\ HuntReturnedError("api_failure")
    /\ hunt.calls = <<"s2", "core", "crossref", "fallback">>
    /\ AllPrimariesEmpty
    /\ FallbackPresent

\* C2: no exception escapes hunt_gaps, whatever the adapters do and whatever
\* records they return.
C2_NoExceptionEscapes == hunt.pc # "idle" => hunt.pc # "raised"

\* C9: the 'api_failure' outcome is returned only when no source could be
\* reached; when sources answered HTTP 200 with zero records the outcome is
\* another one.
C9_ApiFailureOnlyWhenUnreachable ==
    HuntReturnedError("api_failure") => hunt.reached = {}

\* hunt_gaps has returned a list of results (no error entry)
HuntReturnedResults ==
    /\ hunt.pc = "returned"
    /\ \A i \in 1..Len(hunt.returned) : "paper" \in DOMAIN hunt.returned[i]

\* The title extract_paper_info gives a raw record, lower-cased
NormalizedTitle(paper) == Lower(ExtractPaperInfo(paper).title)

\* C16: no two entries hunt_gaps returns come from raw records with the same
\* normalized title.
C16_NoDuplicateTitles ==
    HuntReturnedResults =>
        \A i, j \in 1..Len(hunt.returned) :
            i < j => NormalizedTitle(hunt.relevant_papers[i])
                        # NormalizedTitle(hunt.relevant_papers[j])

\* C17: when the merged list of raw records is not empty and hunt_gaps
\* returns, it returns at least one result and no error entry.
C17_FilteringNeverEmpties ==
    (hunt.pc = "returned" /\ Len(hunt.all_papers) > 0) =>
        /\ HuntReturnedResults
        /\ Len(hunt.returned) >= 1

\* Every retrieved record is older than the cutoff, and results are returned.
C17_Witness ==
    /\ HuntReturnedResults
    /\ Len(hunt.all_papers) > 0
    /\ RecentLoop(hunt.all_papers, now_year - RecencyWindow, <<>>).papers = <<>>
    /\ hunt.recent_papers = hunt.all_papers
    /\ Len(hunt.returned) = Len(hunt.all_papers)

Min(a, b) == IF a <= b THEN a ELSE b

\* C18: hunt_gaps returns at most 5 results, one for each of the first
\* min(5, n) records of the relevance-filtered list, in the order of that list.
C18_AtMostFiveInArrivalOrder ==
    HuntReturnedResults =>
        /\ Len(hunt.returned) <= 5
        /\ Len(hunt.returned) = Min(5, Len(hunt.relevant_papers))
        /\ \A i \in 1..Len(hunt.returned) :
              hunt.returned[i].paper
                 = PaperString(ExtractPaperInfo(hunt.relevant_papers[i]))

\* More than five records passed the filters, with distinct titles among the
\* first five.
C18_Witness ==
    /\ HuntReturnedResults
    /\ Len(hunt.relevant_papers) > 5
    /\ Len(hunt.returned) = 5
    /\ hunt.returned[1].paper # hunt.returned[2].paper

\* A query that hunt_gaps must refuse: None, empty, or shorter than three
\* characters once the surrounding whitespace is removed
InvalidQuery(q) == ~Truthy(q) \/ (IsStr(q) /\ Len(Strip(q.s)) < QueryMinLen)

\* C20: a call of hunt_gaps with a query that is None, empty or shorter than 3
\* characters after stripping returns a list of exactly one entry that carries
\* 'error', error_type 'validation' and 'suggestion', and no adapter has been
\* called; any other query is not rejected by the validation, and the query
\* that is searched is the first 200 characters of the stripped argument.
C20_QueryValidatedAndTruncated ==
    hunt.pc # "idle" =>
        IF InvalidQuery(hunt.arg)
        THEN /\ hunt.pc = "returned"
             /\ Len(hunt.returned) = 1
             /\ {"error", "error_type", "suggestion"} \subseteq DOMAIN hunt.returned[1]
             /\ hunt.returned[1].error_type = "validation"
             /\ hunt.calls = <<>>
             /\ NoCallRunning
        ELSE /\ ~HuntReturnedError("validation")
             /\ hunt.query = Prefix(Strip(hunt.arg.s), QueryLimit)
             /\ hunt.pc = "s2_running" => adapter_call.query = PyStr(hunt.query)

\* A query of more than 200 characters has been searched and answered with
\* results.
C20_Witness ==
    /\ HuntReturnedResults
    /\ IsStr(hunt.arg)
    /\ Len(Strip(hunt.arg.s)) > QueryLimit
    /\ Len(hunt.query) = QueryLimit
    /\ "s2" \in {hunt.calls[i] : i \in 1..Len(hunt.calls)}

\* A refused query has been answered.
C20_Refused == hunt.pc = "returned" /\ InvalidQuery(hunt.arg)

(***************************************************************************)
(* Claims about the retrieval step of hunt_gaps                            *)
(***************************************************************************)
\* The call of hunt_gaps has passed the input validation
ValidQuery == hunt.pc # "idle" /\ IsStr(hunt.arg) /\ ~InvalidQuery(hunt.arg)

\* The state of the working set once the three primary adapters have returned
RetrievalDone ==
    /\ Len(hunt.calls) >= 3
    /\ SubSeq(hunt.calls, 1, 3) = <<"s2", "core", "crossref">>
    /\ \A i \in 4..Len(hunt.calls) : hunt.calls[i] = "fallback"
    /\ [i \in 1..Len(hunt.api_results) |-> hunt.api_results[i].api]
          = <<"s2", "core", "crossref">>
    /\ hunt.api_failures = Cardinality({i \in 1..3 : hunt.api_results[i].count = 0})
    /\ hunt.api_failures \in 0..3
    /\ hunt.pc = "sources" =>
          Len(hunt.all_papers) = hunt.api_results[1].count + hunt.api_results[2].count
                                    + hunt.api_results[3].count

\* One adapter returns to hunt_gaps: its records, in its order, are added at
\* the end of the working set.
RetrievalStep ==
    /\ (hunt.pc = "s2_running" /\ hunt'.pc = "core") =>
           hunt'.all_papers = hunt.all_papers \o Iterate(adapter_call.result)
    /\ (hunt.pc = "core" /\ hunt'.pc = "crossref") =>
           \E resp \in CoreResponses :
              LET call == CoreSearch(env, PyStr(hunt.query), resp)
              IN /\ hunt'.all_papers = hunt.all_papers \o Iterate(call.result)
                 /\ hunt'.api_results[2].count = PyLen(call.result)
    /\ (hunt.pc = "crossref" /\ hunt'.pc = "sources") =>
           \E resp \in CrossrefResponses :
              LET call == CrossrefSearch(env, PyStr(hunt.query), resp)
              IN /\ hunt'.all_papers = hunt.all_papers \o Iterate(call.result)
                 /\ hunt'.api_results[3].count = PyLen(call.result)

\* C21: a call of hunt_gaps with a valid query calls the three primary
\* adapters exactly once each, in the order Semantic Scholar, CORE, Crossref,
\* whatever the earlier ones returned; the working set is the concatenation of
\* their results in that order, each in its own order, and api_failures is the
\* number of adapters that returned no record, a value in 0..3.
C21_ThreePrimariesInOrder ==
    /\ [](ValidQuery =>
            /\ hunt.pc \in {"sources", "filter", "process", "returned", "raised"}
                  => RetrievalDone
            /\ hunt.pc = "core" => hunt.calls = <<"s2">>
            /\ hunt.pc = "crossref" => hunt.calls = <<"s2", "core">>)
    /\ [][RetrievalStep]_vars

\* CORE has returned nothing between two adapters that returned records.
C21_Witness ==
    /\ ValidQuery
    /\ hunt.pc = "sources"
    /\ RetrievalDone
    /\ hunt.api_results[1].count > 0
    /\ hunt.api_results[2].count = 0
    /\ hunt.api_results[3].count > 0
    /\ hunt.api_failures = 1

(***************************************************************************)
(* Claims about the relevance filter of hunt_gaps                          *)
(***************************************************************************)
\* The relevance of a record as the specification states it: a token of the
\* query occurs in the title or the abstract, or both are empty
StatedRelevant(paper, query_words) ==
    LET title_lower == FieldText(Get(paper, "title", PyStr("")))
        abstract_lower == FieldText(Get(paper, "abstract", PyStr("")))
    IN \/ \E w \in 1..Len(query_words) :
             \/ Contains(title_lower, query_words[w])
             \/ Contains(abstract_lower, query_words[w])
       \/ (Strip(title_lower) = "" /\ Strip(abstract_lower) = "")

\* C22: a record passes the relevance filter of hunt_gaps if and only if some
\* whitespace-split, lower-cased token of the query occurs in its title or
\* abstract, or its title and abstract are both empty; a record with a
\* non-empty title that matches no token and an empty abstract does not pass.
C22_RelevantIffTokenOrBothEmpty ==
    hunt.pc = "process" =>
        \A i \in 1..Len(hunt.recent_papers) :
           IsDict(hunt.recent_papers[i]) =>
              (IsRelevant(hunt.recent_papers[i], Split(Lower(hunt.query)))
                 <=> StatedRelevant(hunt.recent_papers[i], Split(Lower(hunt.query))))

(***************************************************************************)
(* Further claims about the retry engine and the Semantic Scholar adapter  *)
(***************************************************************************)
\* C23: in retry_with_backoff an exception of the operation that is neither a
\* requests Timeout nor a ConnectionError ends the retrying at once: it is the
\* last attempt, no backoff sleep follows it, and the call returns the empty
\* list.
C23_OtherExceptionAborts ==
    \A i \in 1..Len(outcomes) :
       (retry.calls = Len(outcomes) /\ CaughtBy(outcomes[i]) = "Exception") =>
          /\ i = Len(outcomes)
          /\ retry.pc = "returned"
          /\ retry.result = "empty_list"
          /\ ~retry.raised
          /\ Len(retry.sleeps) = i - 1

\* The second of three allowed attempts raised an exception of another class.
C23_Witness ==
    /\ retry.max_retries = DefaultMaxRetries
    /\ outcomes = <<"Timeout", "OtherException">>
    /\ retry.pc = "returned"
    /\ Len(retry.sleeps) = 1

\* The position in the timeline of the i-th request of the call
RequestPosition(call, i) ==
    CHOOSE k \in 1..Len(call.timeline) :
       /\ call.timeline[k] = HttpGet
       /\ Cardinality({j \in 1..(k - 1) : call.timeline[j] = HttpGet}) = i - 1

\* The events of the timeline that follow position k
EventsAfter(call, k) == SubSeq(call.timeline, k + 1, Len(call.timeline))

S2Call == adapter_call.pc # "idle" /\ adapter_call.adapter = "s2"

\* C24: an HTTP 429 answer of Semantic Scholar is handled as a retryable
\* timeout: the fixed 5-second cooldown is slept, then the backoff
\* base_delay * 2^attempt without jitter, then the request is repeated while
\* attempts remain; when every answer is 429 the call issues exactly
\* max_retries requests and returns [].
C24_RateLimitRetriedAfterCooldown ==
    S2Call =>
       /\ \A i \in 1..Len(adapter_call.statuses) :
             adapter_call.statuses[i] = "429" =>
                LET after == EventsAfter(adapter_call, RequestPosition(adapter_call, i))
                IN IF i < DefaultMaxRetries
                   THEN /\ Len(after) >= 3
                        /\ SubSeq(after, 1, 3)
                              = <<Sleep(S2RequestSpacing), Sleep(RateLimitCooldown),
                                  Event("backoff", DefaultBaseDelay * Pow2(i - 1), FALSE)>>
                        /\ adapter_call.pc = "returned" =>
                              (Len(after) >= 4 /\ after[4] = HttpGet)
                   ELSE /\ after = <<Sleep(S2RequestSpacing), Sleep(RateLimitCooldown)>>
                        /\ adapter_call.pc \in {"running", "returned"}
       /\ (/\ adapter_call.pc = "returned"
           /\ adapter_call.requests >= 1
           /\ \A i \in 1..Len(adapter_call.statuses) : adapter_call.statuses[i] = "429")
          => /\ adapter_call.requests = DefaultMaxRetries
             /\ adapter_call.result = EmptyList

\* Three answers 429 in a row, and the call has returned.
C24_Witness ==
    /\ S2Call
    /\ adapter_call.pc = "returned"
    /\ adapter_call.statuses = <<"429", "429", "429">>
    /\ adapter_call.result = EmptyList

\* The backoff sleep of the empty-result path before attempt i + 1
EmptyBackoff(i) == Event("backoff", DefaultBaseDelay * Pow2(i - 1), TRUE)

\* C29: s2_search does not tell an empty success from a failure: when every
\* response is HTTP 200 with an empty 'data' list or a status other than 200
\* and 429 (403 for an invalid key included), the call issues exactly
\* max_retries (3) requests, with a backoff sleep between consecutive requests
\* and none after the last, and returns [].
C29_EmptyAndFailureAlike ==
    (/\ S2Call
     /\ adapter_call.pc = "returned"
     /\ adapter_call.requests >= 1
     /\ \A i \in 1..Len(outcomes) : outcomes[i] = "empty")
    => /\ adapter_call.requests = DefaultMaxRetries
       /\ adapter_call.result = EmptyList
       /\ adapter_call.timeline
             = <<HttpGet, Sleep(S2RequestSpacing), EmptyBackoff(1),
                 HttpGet, Sleep(S2RequestSpacing), EmptyBackoff(2),
                 HttpGet, Sleep(S2RequestSpacing)>>

\* An empty success, an invalid key and a server error, in this order.
C29_Witness ==
    /\ S2Call
    /\ adapter_call.pc = "returned"
    /\ outcomes = <<"empty", "empty", "empty">>
    /\ adapter_call.statuses = <<"200", "403", "500">>
    /\ adapter_call.result = EmptyList

(***************************************************************************)
(* Claims about generate_response_with_fallback                            *)
(***************************************************************************)
ProviderErrors == {"RateLimitError", "ProviderError"}

\* C25: generate_response_with_fallback calls generate_response at most
\* max_retries times, returns the text of the first successful call, and when
\* all max_retries calls failed re-raises the error of the last call: for
\* every max_retries >= 0 the caller receives a provider error, never another
\* exception.
C25_FirstSuccessOrLastError ==
    gen.pc = "done" =>
       /\ gen.r.calls <= gen.max_retries
       /\ gen.r.ok =>
             /\ gen.r.calls >= 1
             /\ gen.script[gen.r.calls] = "ok"
             /\ \A i \in 1..(gen.r.calls - 1) : gen.script[i] # "ok"
       /\ ~gen.r.ok =>
             /\ gen.r.calls = gen.max_retries
             /\ \A i \in 1..gen.max_retries : gen.script[i] # "ok"
             /\ gen.r.error \in ProviderErrors
             /\ gen.max_retries >= 1 => gen.r.error = gen.script[gen.max_retries]

(***************************************************************************)
(* Claims about the batch client                                           *)
(***************************************************************************)
\* The requests that have been sent and not yet answered
InFlight == {i \in 1..Len(batch.tasks) : batch.tasks[i].pc = "in_flight"}

\* C26: in the batch path with max_concurrent = N at most N requests are in
\* flight at every moment, under every interleaving of the fetch coroutines,
\* and a request that fails or is answered with a status other than 200 gives
\* an error value for its item: the batch returns one value per request.
C26_BoundedConcurrencyItemErrors ==
    batch.pc # "idle" =>
       /\ Cardinality(InFlight) <= batch.max_concurrent
       /\ \A i \in 1..Len(batch.tasks) :
             (batch.tasks[i].pc = "done" /\ batch.tasks[i].outcome # "200") =>
                /\ batch.tasks[i].result.kind = "item_error"
                /\ "error" \in DOMAIN batch.tasks[i].result
       /\ batch.pc = "returned" =>
             /\ Len(batch.results) = Len(batch.tasks)
             /\ \A i \in 1..Len(batch.tasks) :
                   batch.results[i] = FetchResult(batch.tasks[i].outcome)

\* A batch of three requests with max_concurrent = 1 has returned; one request
\* was answered, one got another status and one raised.
C26_Witness ==
    /\ batch.pc = "returned"
    /\ batch.max_concurrent = 1
    /\ Len(batch.results) = 3
    /\ {batch.tasks[i].outcome : i \in 1..3} = FetchOutcomes

\* The semaphore is exhausted while a request waits for it.
C26_Saturated ==
    /\ batch.pc = "running"
    /\ Cardinality(InFlight) = batch.max_concurrent
    /\ batch.max_concurrent >= 1
    /\ \E i \in 1..Len(batch.tasks) : batch.tasks[i].pc = "waiting"

(***************************************************************************)
(* Claims about deduplicate_papers                                         *)
(***************************************************************************)
\* The normalized title of a record as the specification states it:
\* lower-cased, whitespace removed
StatedTitleKey(paper) ==
    LET t == Get(paper, "title", PyStr(""))
    IN IF IsStr(t) THEN TitleKey(Lower(t.s)) ELSE ""

\* The records of papers that no earlier record shares its normalized title
\* with, in input order
FirstOccurrences(papers) ==
    SelectSeq([i \in 1..Len(papers) |-> [at |-> i, paper |-> papers[i]]],
              LAMBDA e : \A j \in 1..(e.at - 1) :
                            StatedTitleKey(papers[j]) # StatedTitleKey(e.paper))

\* C27: deduplicate_papers returns, in input order, exactly the first record
\* of each distinct normalized title (lower-cased, whitespace removed): a
\* record is removed only if an earlier record has the same normalized title;
\* and applying the function to its result gives the same list.
C27_FirstOfEachTitle ==
    dedup_result # DedupNotCalled =>
       /\ dedup_result.raised = "none"
       /\ dedup_result.papers
             = [i \in 1..Len(FirstOccurrences(dedup_papers))
                  |-> FirstOccurrences(dedup_papers)[i].paper]
       /\ DeduplicatePapers(dedup_result.papers) = dedup_result

(***************************************************************************)
(* Claims about the DOI extractor of extract_paper_info                    *)
(***************************************************************************)
\* The text of a candidate field and the part of it after the last 'doi.org/'
CandidateStr(candidate) == Strip(StrOf(candidate))
DoiPart(candidate) == AfterLast(CandidateStr(candidate), "doi.org/")

\* The loose match as the claim words it: contains 'doi.org/' with a suffix
\* longer than 5 characters, or starts with '10.' and contains '/'
StatedLooseMatch(candidate) ==
    /\ Truthy(candidate)
    /\ \/ (Contains(CandidateStr(candidate), "doi.org/") /\ Len(DoiPart(candidate)) > 5)
       \/ (StartsWith(CandidateStr(candidate), "10.")
             /\ Contains(CandidateStr(candidate), "/"))

\* The loose match of lines 620-630: the direct form is tried only on a
\* candidate without 'doi.org/', and it too must be longer than 5 characters
CodeLooseMatch(candidate) ==
    /\ Truthy(candidate)
    /\ IF Contains(CandidateStr(candidate), "doi.org/")
       THEN Len(DoiPart(candidate)) > 5
       ELSE /\ StartsWith(CandidateStr(candidate), "10.")
            /\ Contains(CandidateStr(candidate), "/")
            /\ Len(CandidateStr(candidate)) > 5

\* The value a matching candidate stands for
CommittedValue(candidate) ==
    IF Contains(CandidateStr(candidate), "doi.org/") /\ Len(DoiPart(candidate)) > 5
    THEN DoiPart(candidate) ELSE CandidateStr(candidate)

\* The final validation of a committed value: the DOI, or null
Shaped(value) ==
    LET cleaned == Strip(BeforeFirst(BeforeFirst(value, "?"), "#"))
    IN IF DoiShapeOk(cleaned) THEN PyStr(cleaned) ELSE PyNone

\* The DOI decided by the first candidate that Loose accepts, and by it alone
DoiOfFirstMatch(paper, Loose(_)) ==
    LET cands == DoiCandidates(paper)
        hits == {i \in 1..Len(cands) : Loose(cands[i])}
    IN IF hits = {} THEN PyNone
       ELSE Shaped(CommittedValue(cands[CHOOSE i \in hits : \A j \in hits : i <= j]))

\* C30 as stated: the DOI extractor commits to the first candidate field (doi,
\* DOI, externalIds.DOI, identifiers.doi, url, link) that contains 'doi.org/'
\* with a suffix longer than 5 characters or starts with '10.' and contains
\* '/'; the returned doi is that value if it passes the final validation and
\* null otherwise, whatever the later candidates hold.
C30_CommitsToFirstLooseMatch ==
    Returned(norm_info) => norm_info.doi = DoiOfFirstMatch(norm_paper, StatedLooseMatch)

\* C30 amended: the same, the loose match being that of the code: a candidate
\* with 'doi.org/' matches only by its suffix, and a candidate in the direct
\* form must also be longer than 5 characters.
C30_CommitsToFirstCodeMatch ==
    Returned(norm_info) => norm_info.doi = DoiOfFirstMatch(norm_paper, CodeLooseMatch)

\* The doi field was committed to and failed the validation, the url field
\* holds a valid DOI, and the returned doi is null.
C30_Witness ==
    /\ Returned(norm_info)
    /\ CodeLooseMatch(Get(norm_paper, "doi", PyNone))
    /\ Shaped(CommittedValue(Get(norm_paper, "doi", PyNone))) = PyNone
    /\ CodeLooseMatch(Get(norm_paper, "url", PyNone))
    /\ Shaped(CommittedValue(Get(norm_paper, "url", PyNone))) # PyNone
    /\ norm_info.doi = PyNone

(***************************************************************************)
(* Claims about the outcomes of hunt_gaps                                  *)
(***************************************************************************)
\* The branches of lines 743-750 and 824-831 are never taken.
DeadErrorBranches ==
    ~HuntReturnedError("no_results") /\ ~HuntReturnedError("insufficient_data")

\* C28: the outcomes 'no_results' and 'insufficient_data' of hunt_gaps are
\* unreachable: a call with a valid query ends either with the single
\* 'api_failure' entry, the working set being empty after the fallback, or
\* with between 1 and 5 results that are not errors.
C28_ApiFailureOrResults ==
    (ValidQuery /\ hunt.pc \in {"returned", "raised"}) =>
       /\ hunt.pc = "returned"
       /\ \/ (HuntReturnedError("api_failure") /\ hunt.all_papers = <<>>)
          \/ (HuntReturnedResults /\ Len(hunt.returned) \in 1..MaxResults)

\* The same without the calls that end with an exception
C28_UnlessRaised ==
    (ValidQuery /\ hunt.pc = "returned") =>
       /\ DeadErrorBranches
       /\ \/ (HuntReturnedError("api_failure") /\ hunt.all_papers = <<>>)
          \/ (HuntReturnedResults /\ Len(hunt.returned) \in 1..MaxResults)

====
